---- MODULE Spec2Model ----
(***************************************************************************)
(* Model of the ML service of balkhaev/aladdin: the training loop          *)
(* (Trainer.train), the training endpoint (train_model) with the files it  *)
(* writes under the symbol's model directory, the chronological split, the *)
(* scaler fit and the ensemble combiner.                                   *)
(*                                                                         *)
(* Numbers: losses are floats in the code.  A loss is modelled as a record *)
(* [kind, v] with kind "fin" (a finite value v), "inf" or "nan", compared  *)
(* the way IEEE comparison does.  Predictor parameters are one abstract    *)
(* value (a small natural number); 0 is the freshly initialised predictor. *)
(***************************************************************************)
EXTENDS Integers, Sequences, FiniteSets, TLC

\* ---------------------------------------------------------------- bounds
MaxEpochs == 3          \* largest `epochs` of a direct Trainer.train call
MaxPatience == 2        \* largest early_stopping_patience
MaxLoss == 2            \* finite losses are 1..MaxLoss
MaxParam == 2           \* trained parameter values are 1..MaxParam
MaxRuns == 2            \* train_model requests per behaviour
MaxRequestEpochs == 2   \* largest `epochs` of a train_model request
MaxPipelineWindows == 7 \* largest number of windows of a train_model request
MaxBatchSize == 2       \* largest batch_size of a train_model request
MaxWindows == 100       \* largest number of windows handed to the split
MaxRows == 4            \* largest number of feature rows handed to the scalers
MaxSeqLen == 2          \* largest sequence_length of the scaler runs
MaxValue == 1           \* feature and close values are 0..MaxValue
MaxModels == 2          \* longest prediction list handed to a combiner directly
MaxPrice == 2           \* predicted prices are -1..MaxPrice, 100 and 102
MaxAccuracy == 1        \* recorded directional accuracies are 0..MaxAccuracy
MaxMatrixRows == 4      \* largest number of rows of a matrix handed to create_sequences
MaxColumns == 2         \* number of columns of such a matrix
MaxHorizon == 2         \* largest forecast_horizon
MaxCandles == 214       \* largest number of candles handed to compute_all_features
MaxFitRows == 2         \* number of rows of a non-empty matrix handed to Normalizer.fit
MaxTestWindows == 3     \* largest number of test windows handed to Trainer.evaluate
MaxLiveRows == 3         \* largest number of rows of the live feature table
MaxFeatureColumns == 2   \* longest metadata["feature_columns"]
MaxInferenceSeqLen == 2  \* largest metadata["sequence_length"]
MaxRetries == 4          \* largest max_retries of a load_candles call
MaxTarget == 2          \* targets are -1 and 1..MaxTarget, predictions -1..MaxTarget

VARIABLES
    \* ---- Trainer (trainer.py) ----
    params,                     \* value held by the predictor's parameter tensors
    train_losses,               \* self.train_losses
    val_losses,                 \* self.val_losses
    best_val_loss,              \* self.best_val_loss
    best_model_state,           \* self.best_model_state
    epochs_without_improvement, \* self.epochs_without_improvement
    epoch,                      \* loop variable of Trainer.train
    tpc,                        \* position inside Trainer.train
    targs,                      \* arguments of the Trainer.train call
    terror,                     \* exception raised by Trainer.train
    epoch_params,               \* history: parameters at the end of each epoch
    \* ---- train_model (api/training.py) ----
    fs,                         \* files under settings.model_cache_dir / symbol
    pc,                         \* position inside train_model
    run,                        \* number of the current train_model request
    request,                    \* the TrainRequest being served
    response,                   \* HTTP answer of the last finished request
    \* ---- split of train_model (lines 93-103) ----
    n_windows,                  \* n = len(X_sequences)
    partition,                  \* X_train, X_val, X_test as sequences of window indices
    \* ---- scalers of train_model (lines 72-78), two runs side by side ----
    datasets,                   \* the feature table of run A and of run B
    normalization,              \* request.normalization
    sequence_length,            \* request.sequence_length
    normalizers,                \* the fitted X_normalizer and y_normalizer of both runs
    \* ---- EnsembleService (services/ensemble.py) ----
    strategy,                   \* the strategy argument of predict
    accuracy,                   \* metadata["metrics"]["directional_accuracy"], if recorded
    call,                       \* what the last call was given (models, outcomes, lists)
    ensemble,                   \* the outcome of the last call
    \* ---- create_sequences (features/normalization.py) ----
    data,                       \* the matrix: a sequence of rows, each a sequence of columns
    window_args,                \* sequence_length, target_column, forecast_horizon
    sequences,                  \* the returned X and y
    \* ---- FeatureEngineer (features/engineering.py), two inputs side by side ----
    candles,                    \* the OHLCV table of input A and of input B
    features,                   \* compute_all_features of both
    \* ---- one Normalizer object (features/normalization.py) ----
    normalizer,                 \* method, is_fitted and the attributes of its sklearn scaler
    scaler_file,                \* the JSON document at the path given to save and load
    loaded,                     \* the instance returned by the last Normalizer.load
    outcome,                    \* the last Normalizer operation and how it ended
    fitted_before,              \* history: a fit of `normalizer` has succeeded
    saved_from,                 \* history: the instance whose save wrote scaler_file
    \* ---- Trainer.evaluate, lines 241-269 ----
    eval_arrays,                \* the predictions and targets arrays
    metrics,                    \* the returned metrics
    \* ---- one inference (api/prediction.py, services/ensemble.py) ----
    live_features,              \* df_features: its column names and its rows
    artifact_metadata,          \* metadata["feature_columns"], metadata["sequence_length"]
    forecast,                   \* how the inference ended and what it fed to the predictor
    \* ---- ClickHouseLoader.load_candles (data/clickhouse_loader.py) ----
    loader                      \* max_retries, the loop variable, the events so far

trainerVars == <<params, train_losses, val_losses, best_val_loss, best_model_state,
                 epochs_without_improvement, epoch, tpc, targs, terror, epoch_params>>
pipelineVars == <<fs, pc, run, request, response>>
splitVars == <<n_windows, partition>>
scalerVars == <<datasets, normalization, sequence_length, normalizers>>
ensembleVars == <<strategy, accuracy, call, ensemble>>
windowVars == <<data, window_args, sequences>>
featureVars == <<candles, features>>
normalizerVars == <<normalizer, scaler_file, loaded, outcome, fitted_before, saved_from>>
evaluateVars == <<eval_arrays, metrics>>
inferenceVars == <<live_features, artifact_metadata, forecast>>
serviceVars == <<inferenceVars, loader>>
libVars == <<windowVars, featureVars, normalizerVars, evaluateVars, serviceVars>>
calcVars == <<splitVars, scalerVars, ensembleVars, libVars>>
vars == <<trainerVars, pipelineVars, calcVars>>

\* ---------------------------------------------------------------- losses
Fin(v) == [kind |-> "fin", v |-> v]
InfLoss == [kind |-> "inf", v |-> 0]
NaNLoss == [kind |-> "nan", v |-> 0]
IsFinite(l) == l.kind = "fin"

\* a < b on floats: false whenever a NaN is involved, inf < inf is false
Lt(a, b) ==
    /\ a.kind = "fin"
    /\ \/ b.kind = "inf"
       \/ b.kind = "fin" /\ a.v < b.v

FiniteLosses == {Fin(v) : v \in 1..MaxLoss}
ValLossValues == FiniteLosses \cup {InfLoss, NaNLoss}
TrainLossValues == {Fin(1), NaNLoss}
Params == 1..MaxParam
InitialParams == 0

\* ------------------------------------------------------ parameter tensors
\* model.state_dict() returns a dict whose tensors share storage with the
\* live parameters; dict.copy() is a shallow copy, so the entries are still
\* views of the live parameters ("view").  torch.save serialises the values
\* the tensors hold at the time of the call ("value").
NoState == [kind |-> "none", v |-> 0]
StateDictCopy(live) == [kind |-> "view", v |-> 0]
Serialized(live) == [kind |-> "value", v |-> live]
TensorValue(t, live) == IF t.kind = "view" THEN live ELSE t.v

\* ------------------------------------------------------------------ files
\* hidden_size: the model_config.hidden_size a document records (0: the
\* document has no model_config)
NoFile == [run |-> 0, params |-> 0, type |-> "none", hidden_size |-> 0]
File(r, p, t) == [run |-> r, params |-> p, type |-> t, hidden_size |-> 0]
\* training.py lines 162-176: {"model_state_dict": ..., "model_config": {...}}
Checkpoint(r, p, t, h) == [run |-> r, params |-> p, type |-> t, hidden_size |-> h]
EmptyDir == [dir |-> FALSE, best_model |-> NoFile, lstm_model |-> NoFile,
             gru_model |-> NoFile, normalizer_X |-> NoFile,
             normalizer_y |-> NoFile, metadata |-> NoFile]
ModelTypes == {"LSTM", "GRU"}

\* model_dir / f"{model_type.lower()}_model.pt"
ModelFile(f, t) == IF t = "LSTM" THEN f.lstm_model ELSE f.gru_model
WithModelFile(f, t, c) ==
    IF t = "LSTM" THEN [f EXCEPT !.lstm_model = c] ELSE [f EXCEPT !.gru_model = c]

\* Trainer.save_checkpoint(checkpoint_dir / "best_model.pt")
save_checkpoint(f, r, live) == [f EXCEPT !.best_model = File(r, Serialized(live).v, "ckpt")]

\* ---------------------------------------------------------------- readers
\* predict_price, lines 49-84 of api/prediction.py: what the endpoint loads
\* from the symbol's directory (status "200": every file was opened)
predict_price_load(f) ==
    IF ~f.dir THEN [status |-> "404"]
    ELSE IF f.metadata = NoFile THEN [status |-> "500"]
    ELSE IF \/ ModelFile(f, f.metadata.type) = NoFile
            \/ f.normalizer_X = NoFile
            \/ f.normalizer_y = NoFile
         THEN [status |-> "500"]
         ELSE [status |-> "200", model |-> ModelFile(f, f.metadata.type),
               normalizer_X |-> f.normalizer_X, normalizer_y |-> f.normalizer_y,
               metadata |-> f.metadata]

\* prediction.py line 69: model_config.get("hidden_size", 128)
DefaultHiddenSize == 128
config_hidden_size(document) ==
    IF document.hidden_size = 0 THEN DefaultHiddenSize ELSE document.hidden_size

\* predict_price, lines 49-84 and 171-175: the status after the predictor was
\* rebuilt from metadata.get("model_config", {}) and the saved weights were
\* loaded into it; load_state_dict raises on tensors of another shape
predict_price_status(f) ==
    LET l == predict_price_load(f)
    IN  IF l.status # "200" THEN l.status
        ELSE IF l.model.hidden_size # config_hidden_size(l.metadata) THEN "500"
        ELSE "200"

\* EnsembleService._load_available_models, lines 87-112 of services/ensemble.py
\* (the list in the order LSTM, GRU)
_load_available_models(f) ==
    IF ~f.dir \/ f.metadata = NoFile THEN <<>>
    ELSE (IF f.lstm_model # NoFile
          THEN <<[type |-> "LSTM", model |-> f.lstm_model, metadata |-> f.metadata]>>
          ELSE <<>>)
         \o
         (IF f.gru_model # NoFile
          THEN <<[type |-> "GRU", model |-> f.gru_model, metadata |-> f.metadata]>>
          ELSE <<>>)

\* EnsembleService._get_model_prediction, lines 121-141: the files a member's
\* inference loads; a missing scaler document makes the inference fail
member_load(f, m) ==
    IF f.normalizer_X = NoFile \/ f.normalizer_y = NoFile THEN [status |-> "failed"]
    ELSE [status |-> "200", model |-> m.model, normalizer_X |-> f.normalizer_X,
          normalizer_y |-> f.normalizer_y, metadata |-> m.metadata]

\* ------------------------------------------------------------------ split
\* train_model computes the sizes with double arithmetic: int(n * 0.7) and
\* int(n * 0.15).  The double nearest to 0.7 is 0.7 - 2^-52/5 and the double
\* nearest to 0.15 is 0.15 - 2^-55/5, both below the decimal value.  The
\* product is rounded to the nearest double (ties to even) and truncated:
\*  - when 7n/10 is not an integer the product stays strictly between the two
\*    neighbouring integers, so the result is the exact floor;
\*  - when 7n/10 = k is an integer the exact product is k - (2k/7) * 2^-52;
\*    with 2^e <= k < 2^(e+1) the doubles below k are 2^(e-52) apart, so the
\*    product rounds to k when 4k <= 7 * 2^e and to the double below k, which
\*    truncates to k - 1, when 4k > 7 * 2^e (first at n = 90: 62, not 63);
\*  - when 3n/20 = k is an integer the exact product is k - (k/6) * 2^-52,
\*    always nearer to k than to the double below it.
RECURSIVE Pow2Floor(_)
Pow2Floor(k) == IF k < 2 THEN 1 ELSE 2 * Pow2Floor(k \div 2)

\* line 95: train_size = int(n * 0.7)
train_size_exact(n) == (7 * n) \div 10
train_size(n) ==
    LET k == (7 * n) \div 10
    IN  IF (7 * n) % 10 = 0 /\ k > 0 /\ 4 * k > 7 * Pow2Floor(k) THEN k - 1 ELSE k

\* line 96: val_size = int(n * 0.15)
val_size(n) == (3 * n) \div 20
\* line 102: the number of windows in the test partition
test_size(n) == n - train_size(n) - val_size(n)

NoArgs == [epochs |-> 0, early_stopping_patience |-> 0, checkpoint_dir |-> FALSE,
           n_train |-> 0, n_val |-> 0]
NoRequest == [model_type |-> "LSTM", epochs |-> 0, candles_ok |-> TRUE, n |-> 0,
              batch_size |-> 1, hidden_size |-> 128]

\* ------------------------------------------------------------ Trainer.train
NewTrainerState ==
    /\ params = InitialParams
    /\ train_losses = <<>>
    /\ val_losses = <<>>
    /\ best_val_loss = InfLoss
    /\ best_model_state = NoState
    /\ epochs_without_improvement = 0
    /\ epoch = 0
    /\ terror = "none"
    /\ epoch_params = <<>>

\* line 182: if val_loss < self.best_val_loss
Improved(val_loss, best) == Lt(val_loss, best)

EarlyStop_strict(count, patience) == count > patience
\* line 196: if self.epochs_without_improvement >= early_stopping_patience
EarlyStop(count, patience) == count >= patience

Raise(e) ==
    /\ tpc' = "raised"
    /\ terror' = e

\* lines 158-163: next iteration of the loop, self.train_epoch(train_loader)
TrainEpoch ==
    /\ tpc = "loop"
    /\ epoch < targs.epochs
    /\ IF targs.n_train = 0
       THEN \* avg_loss = total_loss / num_batches with num_batches = 0
            /\ Raise("ZeroDivisionError")
            /\ UNCHANGED <<params, train_losses>>
       ELSE \E p \in Params, l \in TrainLossValues :
                /\ params' = p
                /\ train_losses' = Append(train_losses, l)
                /\ tpc' = "validate"
                /\ UNCHANGED terror
    /\ UNCHANGED <<val_losses, best_val_loss, best_model_state,
                   epochs_without_improvement, epoch, targs, epoch_params>>
    /\ UNCHANGED pipelineVars
    /\ UNCHANGED calcVars

\* lines 165-201: self.validate(val_loader), improvement check, checkpoint,
\* early stopping.  (scheduler.step only changes the learning rate, which the
\* model does not represent: the trained parameters are nondeterministic.)
Validate ==
    /\ tpc = "validate"
    /\ IF targs.n_val = 0
       THEN /\ Raise("ZeroDivisionError")
            /\ UNCHANGED <<val_losses, best_val_loss, best_model_state,
                           epochs_without_improvement, epoch, epoch_params, fs>>
       ELSE \E l \in ValLossValues :
            /\ val_losses' = Append(val_losses, l)
            /\ epoch_params' = Append(epoch_params, params)
            /\ IF Improved(l, best_val_loss)
               THEN /\ best_val_loss' = l
                    /\ best_model_state' = StateDictCopy(params)
                    /\ epochs_without_improvement' = 0
                    /\ fs' = IF targs.checkpoint_dir
                             THEN save_checkpoint(fs, run, params)
                             ELSE fs
               ELSE /\ epochs_without_improvement' = epochs_without_improvement + 1
                    /\ UNCHANGED <<best_val_loss, best_model_state, fs>>
            /\ tpc' = IF EarlyStop(epochs_without_improvement', targs.early_stopping_patience)
                      THEN "restore" ELSE "loop"
            /\ epoch' = epoch + 1
            /\ UNCHANGED terror
    /\ UNCHANGED <<params, train_losses, targs>>
    /\ UNCHANGED <<pc, run, request, response>>
    /\ UNCHANGED calcVars

\* the value load_state_dict copies into the parameters
RestoredParams(state, live) ==
    IF state.kind # "none" THEN TensorValue(state, live) ELSE live

\* lines 203-216: restore the best model and return the history
RestoreBest ==
    /\ \/ tpc = "restore"
       \/ tpc = "loop" /\ epoch >= targs.epochs
    /\ params' = RestoredParams(best_model_state, params)
    /\ tpc' = "returned"
    /\ UNCHANGED <<train_losses, val_losses, best_val_loss, best_model_state,
                   epochs_without_improvement, epoch, targs, terror, epoch_params>>
    /\ UNCHANGED pipelineVars
    /\ UNCHANGED calcVars

TrainerDone == tpc \in {"returned", "raised"}


\* ----------------------------------------------------- python sequences
Min(a, b) == IF a < b THEN a ELSE b
\* s[a:b] of a python sequence (0-based, bounds clamped to the length)
Slice(s, a, b) == SubSeq(s, Min(a, Len(s)) + 1, Min(b, Len(s)))

\* ------------------------------------------------------- split, lines 93-103
Unsplit == [done |-> FALSE, X_train |-> <<>>, X_val |-> <<>>, X_test |-> <<>>]
\* the windows in chronological order, named by their index 0..n-1
Windows(n) == [i \in 1..n |-> i - 1]

\* line 98: X_sequences[:train_size]
X_train(w, n) == Slice(w, 0, train_size(n))
X_val_no_offset(w, n) == Slice(w, train_size(n), val_size(n))
\* line 100: X_sequences[train_size : train_size + val_size]
X_val(w, n) == Slice(w, train_size(n), train_size(n) + val_size(n))
\* line 102: X_sequences[train_size + val_size :]
X_test(w, n) == Slice(w, train_size(n) + val_size(n), Len(w))

SplitWindows ==
    /\ ~partition.done
    /\ partition' = [done |-> TRUE,
                     X_train |-> X_train(Windows(n_windows), n_windows),
                     X_val |-> X_val(Windows(n_windows), n_windows),
                     X_test |-> X_test(Windows(n_windows), n_windows)]
    /\ UNCHANGED <<n_windows, scalerVars, ensembleVars, libVars, trainerVars, pipelineVars>>

\* ------------------------------------------------------------- rationals
RECURSIVE GCD(_, _)
GCD(a, b) == IF b = 0 THEN a ELSE GCD(b, a % b)
Abs(a) == IF a < 0 THEN -a ELSE a
\* the fraction n/d (d # 0) in lowest terms with a positive denominator
Rat(n, d) ==
    LET g == GCD(Abs(n), Abs(d))
        sgn == IF d < 0 THEN -1 ELSE 1
    IN  [num |-> sgn * (n \div g), den |-> sgn * (d \div g)]

RECURSIVE SumSeq(_)
SumSeq(s) == IF s = <<>> THEN 0 ELSE Head(s) + SumSeq(Tail(s))
SeqMin(s) == CHOOSE x \in {s[i] : i \in DOMAIN s} : \A i \in DOMAIN s : x <= s[i]
SeqMax(s) == CHOOSE x \in {s[i] : i \in DOMAIN s} : \A i \in DOMAIN s : x >= s[i]
\* the values of s in ascending order
RECURSIVE Sorted(_)
Sorted(s) ==
    IF s = <<>> THEN <<>>
    ELSE LET i == CHOOSE i \in DOMAIN s : \A j \in DOMAIN s : s[i] <= s[j]
         IN  <<s[i]>> \o Sorted(SubSeq(s, 1, i - 1) \o SubSeq(s, i + 1, Len(s)))
\* 4 * np.percentile(s, q) for q = 25 * quarter, linear interpolation
Percentile4(s, quarter) ==
    LET a == Sorted(s)
        pos4 == (Len(s) - 1) * quarter        \* 4 * position, 0-based
        lo == pos4 \div 4
        hi == Min(lo + 1, Len(s) - 1)
    IN  4 * a[lo + 1] + (pos4 % 4) * (a[hi + 1] - a[lo + 1])

\* ------------------------------------- Normalizer.fit, normalization.py 47-63
\* The parameters the sklearn scaler computes from one column, as exact
\* fractions: StandardScaler mean_ and var_ (scale_ is its square root; a
\* zero scale is replaced by 1), MinMaxScaler data_min_, data_max_ and scale_,
\* RobustScaler center_ (median) and scale_ (interquartile range).
NonZero(r) == IF r.num = 0 THEN Rat(1, 1) ELSE r
fit(method, col) ==
    LET N == Len(col)
        sum == SumSeq(col)
        sumsq == SumSeq([i \in 1..N |-> col[i] * col[i]])
    IN  IF method = "standard"
        THEN [method |-> method, mean |-> Rat(sum, N),
              scale_squared |-> NonZero(Rat(N * sumsq - sum * sum, N * N))]
        ELSE IF method = "minmax"
        THEN [method |-> method, data_min |-> SeqMin(col), data_max |-> SeqMax(col),
              range |-> NonZero(Rat(SeqMax(col) - SeqMin(col), 1))]
        ELSE [method |-> method, center |-> Rat(Percentile4(col, 2), 4),
              scale |-> NonZero(Rat(Percentile4(col, 3) - Percentile4(col, 1), 4))]

Methods == {"standard", "minmax", "robust"}
Column(table, name) == [i \in 1..Len(table) |-> table[i][name]]
Unfitted == [is_fitted |-> FALSE]

\* lines 74-78: X_normalizer.fit_transform(X_data), y_normalizer.fit_transform(y_data)
FitNormalizers(table, method) ==
    [is_fitted |-> TRUE,
     X_normalizer |-> fit(method, Column(table, "x")),
     y_normalizer |-> fit(method, Column(table, "close"))]

\* the rows (0-based) in a window of the training partition or the target of
\* one: windows 0..train_size-1 cover rows i..i+L-1 and have target row i+L
TrainingRows(N, L) ==
    LET n == IF N - L > 0 THEN N - L ELSE 0
    IN  IF train_size(n) = 0 THEN {} ELSE 0..(train_size(n) + L - 1)

FitScalers ==
    /\ ~normalizers.A.is_fitted
    /\ normalizers' = [A |-> FitNormalizers(datasets.A, normalization),
                       B |-> FitNormalizers(datasets.B, normalization)]
    /\ UNCHANGED <<datasets, normalization, sequence_length, splitVars,
                   ensembleVars, libVars, trainerVars, pipelineVars>>

\* -------------------------------------------- EnsembleService, ensemble.py
\* Floats are modelled as exact fractions, or NaN.  Weights are kept in units
\* of one half, so that the default weight 0.5 is the integer 1 and a recorded
\* directional accuracy a (a percentage, 0..100) is the integer 2a.
NaN == [kind |-> "nan", num |-> 0, den |-> 1]
Num(r) == [kind |-> "num", num |-> r.num, den |-> r.den]
FInt(i) == [kind |-> "num", num |-> i, den |-> 1]
IsNaN(x) == x.kind = "nan"
\* x / y on floats; 0/0 is NaN (numpy warns, it does not raise)
FDiv(x, y) ==
    IF IsNaN(x) \/ IsNaN(y) \/ y.num = 0 THEN NaN
    ELSE Num(Rat(x.num * y.den, x.den * y.num))
FMul(x, y) ==
    IF IsNaN(x) \/ IsNaN(y) THEN NaN ELSE Num(Rat(x.num * y.num, x.den * y.den))
FAdd(x, y) ==
    IF IsNaN(x) \/ IsNaN(y) THEN NaN
    ELSE Num(Rat(x.num * y.den + y.num * x.den, x.den * y.den))
RECURSIVE FSum(_)
FSum(s) == IF s = <<>> THEN FInt(0) ELSE FAdd(Head(s), FSum(Tail(s)))
\* x > 0 on floats (false for NaN)
FPositive(x) == ~IsNaN(x) /\ x.num > 0

NoAccuracy == [recorded |-> FALSE, value |-> 0]
\* metadata.get("metrics", {}).get("directional_accuracy", 0.5), in halves
Weight(acc) == IF acc.recorded THEN 2 * acc.value ELSE 1

PredictedPrices(predictions) == [i \in DOMAIN predictions |-> predictions[i].predicted_price]

\* line 177: weights = weights / weights.sum()
NormalizeWeights(weights) ==
    [i \in DOMAIN weights |-> FDiv(FInt(weights[i]), FInt(SumSeq(weights)))]

np_average_unweighted(prices, weights) ==
    FDiv(FInt(SumSeq(prices)), FInt(Len(prices)))
\* line 181: np.average(predicted_prices, weights=weights)
np_average(prices, weights) ==
    FDiv(FSum([i \in DOMAIN prices |-> FMul(FInt(prices[i]), weights[i])]), FSum(weights))

\* np.std(predicted_prices) ** 2, the population variance
Variance(prices) ==
    LET N == Len(prices)
    IN  Rat(N * SumSeq([i \in 1..N |-> prices[i] * prices[i]])
              - SumSeq(prices) * SumSeq(prices), N * N)

\* the largest k in lo..hi with k * k <= n
RECURSIVE ISqrtSearch(_, _, _)
ISqrtSearch(n, lo, hi) ==
    IF lo >= hi THEN lo
    ELSE LET mid == (lo + hi + 1) \div 2
         IN  IF mid * mid <= n THEN ISqrtSearch(n, mid, hi)
             ELSE ISqrtSearch(n, lo, mid - 1)
ISqrt(n) == ISqrtSearch(n, 0, Min(n, 46340))
\* the square root of a fraction r >= 0: exact when r is the square of a
\* fraction, otherwise rounded down to a multiple of 1/r.den (the code
\* rounds to the nearest double)
FSqrt(r) == Num(Rat(ISqrt(r.num * r.den), r.den))
\* line 184: np.std(predicted_prices)
np_std(prices) == FSqrt(Variance(prices))

Half == Num(Rat(1, 2))
agreement_unguarded(std, combined_price) ==
    FDiv(FInt(1), FAdd(FInt(1), FDiv(std, combined_price)))
\* line 185: 1.0 / (1.0 + std / combined_price) if combined_price > 0 else 0.5
agreement(std, combined_price) ==
    IF FPositive(combined_price)
    THEN FDiv(FInt(1), FAdd(FInt(1), FDiv(std, combined_price)))
    ELSE Half

\* lines 173-193
_weighted_average(predictions, weights) ==
    LET combined_price == np_average(PredictedPrices(predictions), NormalizeWeights(weights))
        std == np_std(PredictedPrices(predictions))
    IN  [status |-> "ok",
         ensemble_strategy |-> "WEIGHTED_AVERAGE",
         predicted_price |-> combined_price,
         confidence |-> agreement(std, combined_price),
         models_used |-> Len(predictions),
         votes |-> [up |-> 0, down |-> 0],
         individual_predictions |-> predictions]

\* line 199: np.median(predicted_prices)
np_median(prices) == Rat(Percentile4(prices, 2), 4)
votes_up_or_equal(prices, median_price) ==
    Cardinality({i \in DOMAIN prices : prices[i] * median_price.den >= median_price.num})
\* line 203: sum(1 for p in predicted_prices if p > median_price)
votes_up(prices, median_price) ==
    Cardinality({i \in DOMAIN prices : prices[i] * median_price.den > median_price.num})
Max(a, b) == IF a > b THEN a ELSE b

\* lines 195-216
_voting(predictions) ==
    LET prices == PredictedPrices(predictions)
        median_price == np_median(prices)
        up == votes_up(prices, median_price)
        down == Len(prices) - up
    IN  [status |-> "ok",
         ensemble_strategy |-> "VOTING",
         predicted_price |-> Num(median_price),
         confidence |-> Num(Rat(Max(up, down), Len(predictions))),
         models_used |-> Len(predictions),
         votes |-> [up |-> up, down |-> down],
         individual_predictions |-> predictions]

Failure(e) == [status |-> e]
NoResult == [status |-> "none"]
NoCall == [op |-> "none", models |-> <<>>, outcomes |-> <<>>,
           predictions |-> <<>>, weights |-> <<>>]

Prices == (-1..MaxPrice) \cup {100, 102}
Accuracies == {NoAccuracy} \cup {[recorded |-> TRUE, value |-> a] : a \in 0..MaxAccuracy}
Strategies == {"WEIGHTED_AVERAGE", "VOTING", "STACKING"}
\* the outcome of one member's _get_model_prediction: a price or an exception
Outcomes == {[ok |-> FALSE, price |-> 0]} \cup {[ok |-> TRUE, price |-> p] : p \in Prices}

\* lines 60-72: the predictions and weights of the members that did not raise
RECURSIVE Survivors(_, _, _)
Survivors(models, outcomes, acc) ==
    IF models = <<>> THEN [predictions |-> <<>>, weights |-> <<>>]
    ELSE LET rest == Survivors(Tail(models), Tail(outcomes), acc)
         IN  IF Head(outcomes).ok
             THEN [predictions |->
                       <<[model_type |-> Head(models).type,
                          predicted_price |-> Head(outcomes).price,
                          accuracy |-> Weight(acc)]>> \o rest.predictions,
                   weights |-> <<Weight(acc)>> \o rest.weights]
             ELSE rest

NoValidPredictions_any_failure(predictions, models) == Len(predictions) < Len(models)
\* line 74: if len(predictions) == 0
NoValidPredictions(predictions, models) == Len(predictions) = 0

Combine_stacking_votes(strat, predictions, weights) ==
    IF strat = "WEIGHTED_AVERAGE" THEN _weighted_average(predictions, weights)
    ELSE _voting(predictions)
\* lines 77-83
Combine(strat, predictions, weights) ==
    IF strat = "VOTING" THEN _voting(predictions)
    ELSE _weighted_average(predictions, weights)

\* EnsembleService.predict, lines 48-85
Predict ==
    /\ call.op = "none"
    /\ LET models == _load_available_models(fs)
       IN  IF Len(models) = 0
           THEN /\ ensemble' = Failure("No models found")
                /\ call' = [NoCall EXCEPT !.op = "predict"]
           ELSE \E outcomes \in [1..Len(models) -> Outcomes] :
                  LET s == Survivors(models, outcomes, accuracy)
                  IN  /\ call' = [op |-> "predict", models |-> models,
                                  outcomes |-> outcomes,
                                  predictions |-> s.predictions, weights |-> s.weights]
                      /\ ensemble' =
                            IF NoValidPredictions(s.predictions, models)
                            THEN Failure("No valid predictions obtained")
                            ELSE Combine(strategy, s.predictions, s.weights)
    /\ UNCHANGED <<strategy, accuracy, splitVars, scalerVars, libVars, trainerVars, pipelineVars>>

\* _weighted_average called on its own with any lists of equal length
WeightedAverageCall ==
    /\ call.op = "none"
    /\ \E k \in 1..MaxModels :
       \E prices \in [1..k -> Prices], weights \in [1..k -> 0..(2 * MaxAccuracy)] :
          LET predictions == [i \in 1..k |-> [model_type |-> "LSTM",
                                               predicted_price |-> prices[i],
                                               accuracy |-> weights[i]]]
          IN  /\ call' = [op |-> "_weighted_average", models |-> <<>>, outcomes |-> <<>>,
                          predictions |-> predictions, weights |-> weights]
              /\ ensemble' = _weighted_average(predictions, weights)
    /\ UNCHANGED <<strategy, accuracy, splitVars, scalerVars, libVars, trainerVars, pipelineVars>>

\* _voting called on its own with any non-empty list
VotingCall ==
    /\ call.op = "none"
    /\ \E k \in 1..(MaxModels + 1) :
       \E prices \in [1..k -> -1..MaxPrice] :
          LET predictions == [i \in 1..k |-> [model_type |-> "LSTM",
                                               predicted_price |-> prices[i],
                                               accuracy |-> 1]]
          IN  /\ call' = [op |-> "_voting", models |-> <<>>, outcomes |-> <<>>,
                          predictions |-> predictions, weights |-> <<>>]
              /\ ensemble' = _voting(predictions)
    /\ UNCHANGED <<strategy, accuracy, splitVars, scalerVars, libVars, trainerVars, pipelineVars>>

\* the shapes of the symbol's directory that train_model leaves behind
PublishedDir(l, g, m) ==
    [dir |-> TRUE, best_model |-> File(1, 1, "ckpt"), lstm_model |-> l, gru_model |-> g,
     normalizer_X |-> File(1, 0, "scaler"), normalizer_y |-> File(1, 0, "scaler"),
     metadata |-> m]
EnsembleDirs ==
    {EmptyDir, [EmptyDir EXCEPT !.dir = TRUE]} \cup
    {PublishedDir(File(1, 1, "LSTM"), g, File(1, 0, "LSTM")) :
        g \in {NoFile, File(1, 1, "GRU")}} \cup
    {PublishedDir(l, File(1, 1, "GRU"), File(1, 0, "GRU")) :
        l \in {NoFile, File(1, 1, "LSTM")}}


\* --------------------------- create_sequences, normalization.py 177-218
\* range(stop): 0, 1, ..., stop - 1, empty when stop <= 0
py_range(stop) == [j \in 1..stop |-> j - 1]
range_stop_short(N, L, H) == N - L - H
\* line 199: len(data) - sequence_length - forecast_horizon + 1
range_stop(N, L, H) == N - L - H + 1

\* the rows (0-based) whose target column makes the target of window i
target_rows_last_of_window(i, L, H) == (i + L - 1)..(i + L - 1)
\* lines 205-210: row i + L when the horizon is 1, else rows i + L .. i + L + H - 1
target_rows(i, L, H) == IF H = 1 THEN (i + L)..(i + L) ELSE (i + L)..(i + L + H - 1)

\* lines 205-211: a scalar when forecast_horizon == 1, else an array of
\* forecast_horizon values
target(d, i, L, tc, H) ==
    LET rows == target_rows(i, L, H)
        first == CHOOSE r \in rows : \A q \in rows : r <= q
    IN  [scalar |-> (H = 1),
         values |-> [k \in 1..Cardinality(rows) |-> d[first + k][tc + 1]],
         rows |-> rows]

\* lines 197-218; the row numbers a window was cut from are kept next to it
create_sequences(d, L, tc, H) ==
    LET idx == py_range(range_stop(Len(d), L, H))
    IN  [done |-> TRUE,
         X |-> [j \in DOMAIN idx |-> [rows |-> idx[j]..(idx[j] + L - 1),
                                      seq |-> Slice(d, idx[j], idx[j] + L)]],
         y |-> [j \in DOMAIN idx |-> target(d, idx[j], L, tc, H)]]

\* training.py lines 74-78: fit_transform keeps one row per feature row, in
\* order; a normalized value is named by the row it was computed from
X_normalized(table) ==
    [i \in 1..Len(table) |->
        <<[row |-> i - 1, column |-> "x", raw |-> table[i].x, normalized |-> TRUE]>>]
y_normalized(table) ==
    [i \in 1..Len(table) |->
        [row |-> i - 1, column |-> "close", raw |-> table[i].close, normalized |-> TRUE]]

y_targets_from_window_end(y, L, n) == Slice(Slice(y, L - 1, Len(y)), 0, n)
\* training.py lines 88-91: y_normalized[sequence_length:][:len(X_sequences)]
y_targets(y, L, n) == Slice(Slice(y, L, Len(y)), 0, n)

\* training.py lines 80-91: the windows of the normalized features and their
\* targets (run A)
TrainModelSequences ==
    /\ normalizers.A.is_fitted
    /\ ~sequences.done
    /\ LET X_sequences == create_sequences(X_normalized(datasets.A),
                                           sequence_length, 0, 1).X
       IN  sequences' = [done |-> TRUE,
                         X |-> X_sequences,
                         y |-> y_targets(y_normalized(datasets.A), sequence_length,
                                         Len(X_sequences))]
    /\ UNCHANGED <<data, window_args, featureVars, normalizerVars, evaluateVars,
                   splitVars, scalerVars, ensembleVars, trainerVars, pipelineVars,
                   serviceVars>>

CreateSequences ==
    /\ ~sequences.done
    /\ sequences' = create_sequences(data, window_args.sequence_length,
                                     window_args.target_column,
                                     window_args.forecast_horizon)
    /\ UNCHANGED <<data, window_args, featureVars, normalizerVars, evaluateVars,
                   splitVars, scalerVars, ensembleVars, trainerVars, pipelineVars, serviceVars>>

\* ------------------------------- FeatureEngineer, features/engineering.py
\* A table is modelled column by column, as pandas keeps it.  The raw columns
\* are sequences of integers; sequence index i is pandas row i - 1.  A
\* computed cell is [nan, v]: NaN, or the exact integer terms the float is
\* computed from (a sum for a mean, numerator and denominator for a ratio).
\* Exponentially weighted means are kept in fixed point, FixedPoint units to
\* one, rounded down.
FixedPoint == 1000
NaNV == [nan |-> TRUE, v |-> <<>>]
Val(terms) == [nan |-> FALSE, v |-> terms]
Raw(c, name) == [i \in 1..Len(c) |-> c[i][name]]

\* sum, smallest and largest of x[a..b], by halving the range
RECURSIVE SumRange(_, _, _)
SumRange(x, a, b) ==
    IF a > b THEN 0
    ELSE IF a = b THEN x[a]
    ELSE SumRange(x, a, (a + b) \div 2) + SumRange(x, (a + b) \div 2 + 1, b)
RECURSIVE MinRange(_, _, _)
MinRange(x, a, b) ==
    IF a >= b THEN x[b]
    ELSE Min(MinRange(x, a, (a + b) \div 2), MinRange(x, (a + b) \div 2 + 1, b))
RECURSIVE MaxRange(_, _, _)
MaxRange(x, a, b) ==
    IF a >= b THEN x[b]
    ELSE Max(MaxRange(x, a, (a + b) \div 2), MaxRange(x, (a + b) \div 2 + 1, b))
\* One step of the three running computations of the module, given the
\* values acc of the rows before row k:
\*  - "ewm": series.ewm(span=span, adjust=False).mean(), e_1 = x_1 and
\*    e_k = (2 x_k + (span - 1) e_(k-1)) / (span + 1); unit is the number of
\*    fixed-point units of one unit of x;
\*  - "obv": lines 153-160, the on-balance volume;
\*  - "decay": the weighted sum n_k = x_k + (period - 1) / period * n_(k-1)
\*    of series.ewm(alpha=1/period).mean().
ScanStep(op, acc, k) ==
    IF op.kind = "ewm"
    THEN (IF k = 1 THEN op.unit * op.x[1]
          ELSE (2 * op.unit * op.x[k] + (op.span - 1) * acc[k - 1]) \div (op.span + 1))
    ELSE IF op.kind = "obv"
    THEN (IF k = 1 THEN 0
          ELSE IF op.close[k] > op.close[k - 1] THEN acc[k - 1] + op.volume[k]
          ELSE IF op.close[k] < op.close[k - 1] THEN acc[k - 1] - op.volume[k]
          ELSE acc[k - 1])
    ELSE (IF k = 1 THEN op.x[1]
          ELSE op.x[k] + ((op.period - 1) * acc[k - 1]) \div op.period)
\* the loop over rows 1..n, run in blocks of 16 rows
RECURSIVE ScanRun(_, _, _, _)
ScanRun(op, k, stop, acc) ==
    IF k > stop THEN acc
    ELSE LET next == Append(acc, ScanStep(op, acc, k))
         IN  IF Len(next) = k THEN ScanRun(op, k + 1, stop, next) ELSE <<>>
RECURSIVE ScanFrom(_, _, _, _)
ScanFrom(op, n, k, acc) ==
    IF k > n THEN acc
    ELSE LET next == ScanRun(op, k, Min(k + 15, n), acc)
         IN  IF Len(next) >= k THEN ScanFrom(op, n, k + 16, next) ELSE <<>>
Scan(op, n) == ScanFrom(op, n, 1, <<>>)
\* series.rolling(window=w).mean(), as the sum of the window
rolling_mean(x, w) ==
    [i \in 1..Len(x) |-> IF i < w THEN NaNV ELSE Val(<<SumRange(x, i - w + 1, i)>>)]
\* w * w * (w - 1) / w times the rolling variance: w * sum(x^2) - sum(x)^2
VarTerm(x, a, b) ==
    (b - a + 1) * SumRange([i \in 1..Len(x) |-> x[i] * x[i]], a, b)
        - SumRange(x, a, b) * SumRange(x, a, b)

ewm(x, span, unit) == Scan([kind |-> "ewm", x |-> x, span |-> span, unit |-> unit], Len(x))
Cells(x) == [i \in 1..Len(x) |-> Val(<<x[i]>>)]

\* ---- lines 64-79, _compute_price_features
\* close.pct_change() and log(close / close.shift(1)): the two closes
returns(close) ==
    [i \in 1..Len(close) |-> IF i = 1 THEN NaNV ELSE Val(<<close[i], close[i - 1]>>)]
hl_spread(high, low, close) ==
    [i \in 1..Len(close) |-> Val(<<high[i] - low[i], close[i]>>)]
oc_spread(open, close) ==
    [i \in 1..Len(close) |-> Val(<<close[i] - open[i], close[i]>>)]
\* returns.rolling(window=w).std(): the w returns of rows i-w+1 .. i, which
\* need the closes of rows i-w .. i; NaN while the window holds the NaN of
\* the first row
volatility(close, w) ==
    [i \in 1..Len(close) |-> IF i <= w THEN NaNV ELSE Val(SubSeq(close, i - w, i))]

\* ---- lines 82-96, _compute_moving_averages
sma(close, period) == rolling_mean(close, period)
ema(close, span) == Cells(ewm(close, span, FixedPoint))
price_sma_ratio(close, period) ==
    LET m == sma(close, period)
    IN  [i \in 1..Len(close) |->
            IF m[i].nan THEN NaNV ELSE Val(<<close[i]>> \o m[i].v)]

\* ---- lines 191-197, _rsi
\* delta = series.diff(); delta.where(delta > 0, 0) puts 0 where the
\* comparison is false, the NaN of the first row included
Delta(x, i) == IF i = 1 THEN 0 ELSE x[i] - x[i - 1]
Gains(x) == [i \in 1..Len(x) |-> IF Delta(x, i) > 0 THEN Delta(x, i) ELSE 0]
Losses(x) == [i \in 1..Len(x) |-> IF Delta(x, i) < 0 THEN -Delta(x, i) ELSE 0]
\* rs = gain / loss is 0/0 = NaN when the window has neither a gain nor a loss
_rsi(x, period) ==
    [i \in 1..Len(x) |->
        IF i < period THEN NaNV
        ELSE LET gain == SumRange(Gains(x), i - period + 1, i)
                 loss == SumRange(Losses(x), i - period + 1, i)
             IN  IF gain = 0 /\ loss = 0 THEN NaNV ELSE Val(<<gain, loss>>)]

\* ---- lines 99-125, _compute_momentum_indicators
macd(close) ==
    LET ema12 == ewm(close, 12, FixedPoint)
        ema26 == ewm(close, 26, FixedPoint)
    IN  [i \in 1..Len(close) |-> ema12[i] - ema26[i]]
macd_signal(close) == ewm(macd(close), 9, 1)
macd_histogram(close) ==
    LET m == macd(close)
        sig == macd_signal(close)
    IN  [i \in 1..Len(close) |-> m[i] - sig[i]]
\* a quotient num / den of two exact terms: NaN for 0/0, infinite (not NaN)
\* for a non-zero numerator over 0
Quotient(num, den) == IF num = 0 /\ den = 0 THEN NaNV ELSE Val(<<num, den>>)
\* 100 * (close - low_14) / (high_14 - low_14), lines 113-115
stoch_k(high, low, close) ==
    [i \in 1..Len(close) |->
        IF i < 14 THEN NaNV
        ELSE Quotient(close[i] - MinRange(low, i - 13, i),
                      MaxRange(high, i - 13, i) - MinRange(low, i - 13, i))]
\* stoch_k.rolling(window=3).mean(), line 116
stoch_d(high, low, close) ==
    LET k == stoch_k(high, low, close)
    IN  [i \in 1..Len(close) |->
            IF i < 3 THEN NaNV
            ELSE IF k[i].nan \/ k[i - 1].nan \/ k[i - 2].nan THEN NaNV
            ELSE Val(k[i - 2].v \o k[i - 1].v \o k[i].v)]
\* lines 119-120
roc(close, period) ==
    [i \in 1..Len(close) |->
        IF i <= period THEN NaNV ELSE Val(<<close[i], close[i - period]>>)]
\* -100 * (high_14 - close) / (high_14 - low_14), line 123
williams_r(high, low, close) ==
    [i \in 1..Len(close) |->
        IF i < 14 THEN NaNV
        ELSE Quotient(MaxRange(high, i - 13, i) - close[i],
                      MaxRange(high, i - 13, i) - MinRange(low, i - 13, i))]

\* ---- lines 199-206, _atr
\* true range: the largest of high - low, |high - previous close| and
\* |low - previous close| (max(axis=1) skips the NaN of the first row)
true_range(high, low, close) ==
    [i \in 1..Len(close) |->
        IF i = 1 THEN high[i] - low[i]
        ELSE Max(high[i] - low[i],
                 Max(Abs(high[i] - close[i - 1]), Abs(low[i] - close[i - 1])))]
_atr(high, low, close, period) == rolling_mean(true_range(high, low, close), period)

\* ---- lines 128-147, _compute_volatility_indicators
\* the bands are sma +- 2 std: the window's sum and variance term
bb_band(close, period) ==
    [i \in 1..Len(close) |->
        IF i < period THEN NaNV
        ELSE Val(<<SumRange(close, i - period + 1, i),
                   VarTerm(close, i - period + 1, i)>>)]
\* (close - lower) / (upper - lower) is 0/0 when the window's std is 0
bb_position(close, period) ==
    [i \in 1..Len(close) |->
        IF i < period THEN NaNV
        ELSE IF VarTerm(close, i - period + 1, i) = 0 THEN NaNV
        ELSE Val(<<close[i], SumRange(close, i - period + 1, i),
                   VarTerm(close, i - period + 1, i)>>)]

\* ---- lines 150-171, _compute_volume_indicators
\* lines 153-161
obv(close, volume) ==
    Cells(Scan([kind |-> "obv", close |-> close, volume |-> volume], Len(close)))
\* volume / volume_sma_20 is 0/0 when the window's volumes are all 0
volume_ratio(volume) ==
    [i \in 1..Len(volume) |->
        IF i < 20 THEN NaNV ELSE Quotient(volume[i], SumRange(volume, i - 19, i))]
\* close.diff() * volume
force_index(close, volume) ==
    [i \in 1..Len(close) |->
        IF i = 1 THEN NaNV ELSE Val(<<(close[i] - close[i - 1]) * volume[i]>>)]
\* force_index.ewm(span=13, adjust=False).mean(): starts at the second row
force_index_13(close, volume) ==
    LET fi == [i \in 1..(Len(close) - 1) |-> (close[i + 1] - close[i]) * volume[i + 1]]
        e == ewm(fi, 13, FixedPoint)
    IN  [i \in 1..Len(close) |-> IF i = 1 THEN NaNV ELSE Val(<<e[i - 1]>>)]

\* ---- lines 208-221, _adx
\* x.ewm(alpha=1/period).mean() with adjust=True is a quotient of two
\* weighted sums; the denominator depends on the row only, so the numerator
\* stands for the mean: n_i = x_i + (period - 1) / period * n_(i-1)
Decay(x, period) == Scan([kind |-> "decay", x |-> x, period |-> period], Len(x))
plus_dm(high) ==
    [i \in 1..Len(high) |-> IF i = 1 THEN 0 ELSE FixedPoint * Max(high[i] - high[i - 1], 0)]
minus_dm(low) ==
    [i \in 1..Len(low) |-> IF i = 1 THEN 0 ELSE FixedPoint * Max(low[i - 1] - low[i], 0)]
\* dx = |plus_di - minus_di| / (plus_di + minus_di) * 100, in fixed point;
\* NaN before the ATR exists, where the ATR is 0 (each di is then infinite
\* or 0/0) and where both di are 0
dx(high, low, close, period) ==
    LET atr == _atr(high, low, close, period)
        p == Decay(plus_dm(high), period)
        m == Decay(minus_dm(low), period)
    IN  [i \in 1..Len(close) |->
            IF atr[i].nan THEN NaNV
            ELSE IF atr[i].v[1] = 0 \/ p[i] + m[i] = 0 THEN NaNV
            ELSE Val(<<(FixedPoint * Abs(p[i] - m[i])) \div (p[i] + m[i])>>)]
\* dx.ewm(alpha=1/period).mean(): NaN rows of dx add nothing to either sum,
\* the result is NaN until dx has had a value
_adx(high, low, close, period) ==
    LET d == dx(high, low, close, period)
        num == Decay([i \in 1..Len(close) |-> IF d[i].nan THEN 0 ELSE FixedPoint * d[i].v[1]],
                     period)
        den == Decay([i \in 1..Len(close) |-> IF d[i].nan THEN 0 ELSE FixedPoint], period)
        seen == [i \in 1..Len(close) |-> \E j \in 1..i : ~d[j].nan]
    IN  [i \in 1..Len(close) |-> IF seen[i] THEN Val(<<num[i], den[i]>>) ELSE NaNV]

\* ---- lines 223-229, _cci
\* (tp - ma) / (0.015 * md) with tp = (high + low + close) / 3; md, the mean
\* absolute deviation of the window, is 0 when the window's tp are all equal
_cci(high, low, close, period) ==
    LET tp == [i \in 1..Len(close) |-> high[i] + low[i] + close[i]]
    IN  [i \in 1..Len(close) |->
            IF i < period THEN NaNV
            ELSE LET total == SumRange(tp, i - period + 1, i)
                     md == SumRange([j \in 1..Len(close) |-> Abs(period * tp[j] - total)],
                                    i - period + 1, i)
                 IN  Quotient(period * tp[i] - total, md)]

\* ---- lines 231-244, _aroon
\* the rows (sequence indices) of the rolling window that ends at row i
aroon_window_forward(i, period, n) == i..Min(i + period, n)
aroon_window(i, period, n) == (i - period)..i
\* x.argmax() / x.argmin(): the offset of the first largest / smallest value
ArgFirst(x, rows, largest) ==
    LET first == CHOOSE r \in rows : \A q \in rows : r <= q
        best == CHOOSE r \in rows :
                  /\ \A q \in rows : IF largest THEN x[q] <= x[r] ELSE x[q] >= x[r]
                  /\ \A q \in rows : (x[q] = x[r]) => r <= q
    IN  best - first
\* float(period - x.argmax()) / period * 100 over rolling(window=period + 1)
aroon(x, period, largest) ==
    [i \in 1..Len(x) |->
        IF i < period + 1 THEN NaNV
        ELSE Val(<<period - ArgFirst(x, aroon_window(i, period, Len(x)), largest)>>)]

\* ---- lines 26-61, compute_all_features
\* the table after lines 39-54, one entry per computed column
AllColumns(c) ==
    LET open == Raw(c, "open")
        high == Raw(c, "high")
        low == Raw(c, "low")
        close == Raw(c, "close")
        volume == Raw(c, "volume")
        up == aroon(high, 25, TRUE)
        down == aroon(low, 25, FALSE)
    IN  [returns |-> returns(close),
         log_returns |-> returns(close),
         hl_spread |-> hl_spread(high, low, close),
         oc_spread |-> oc_spread(open, close),
         volatility_10 |-> volatility(close, 10),
         volatility_20 |-> volatility(close, 20),
         volatility_50 |-> volatility(close, 50),
         sma_7 |-> sma(close, 7),
         sma_20 |-> sma(close, 20),
         sma_50 |-> sma(close, 50),
         sma_100 |-> sma(close, 100),
         sma_200 |-> sma(close, 200),
         ema_7 |-> ema(close, 7),
         ema_20 |-> ema(close, 20),
         ema_50 |-> ema(close, 50),
         ema_100 |-> ema(close, 100),
         ema_200 |-> ema(close, 200),
         price_sma20_ratio |-> price_sma_ratio(close, 20),
         price_sma50_ratio |-> price_sma_ratio(close, 50),
         rsi_14 |-> _rsi(close, 14),
         rsi_7 |-> _rsi(close, 7),
         macd |-> Cells(macd(close)),
         macd_signal |-> Cells(macd_signal(close)),
         macd_histogram |-> Cells(macd_histogram(close)),
         stoch_k |-> stoch_k(high, low, close),
         stoch_d |-> stoch_d(high, low, close),
         roc_10 |-> roc(close, 10),
         roc_20 |-> roc(close, 20),
         williams_r |-> williams_r(high, low, close),
         bb_upper_20 |-> bb_band(close, 20),
         bb_middle_20 |-> sma(close, 20),
         bb_lower_20 |-> bb_band(close, 20),
         bb_width_20 |-> bb_band(close, 20),
         bb_position_20 |-> bb_position(close, 20),
         atr_14 |-> _atr(high, low, close, 14),
         obv |-> obv(close, volume),
         volume_sma_20 |-> rolling_mean(volume, 20),
         volume_ratio |-> volume_ratio(volume),
         force_index |-> force_index(close, volume),
         force_index_13 |-> force_index_13(close, volume),
         adx_14 |-> _adx(high, low, close, 14),
         cci_20 |-> _cci(high, low, close, 20),
         aroon_up |-> up,
         aroon_down |-> down,
         aroon_oscillator |->
            [i \in 1..Len(c) |-> IF up[i].nan \/ down[i].nan THEN NaNV
                                 ELSE Val(<<up[i].v[1] - down[i].v[1]>>)]]

\* line 57, df.dropna(): the rows without a NaN in any column, in order, each
\* under its label (the row number of its candle)
\* the rows a..b without a NaN in any column, in order
RECURSIVE Kept(_, _, _)
Kept(df, a, b) ==
    IF a > b THEN <<>>
    ELSE IF a = b THEN (IF \A name \in DOMAIN df : ~df[name][a].nan THEN <<a>> ELSE <<>>)
    ELSE Kept(df, a, (a + b) \div 2) \o Kept(df, (a + b) \div 2 + 1, b)
dropna(df, n) ==
    LET kept == Kept(df, 1, n)
    IN  [k \in 1..Len(kept) |->
            [index |-> kept[k] - 1,
             cols |-> [name \in DOMAIN df |-> df[name][kept[k]]]]]

compute_all_features(c) == dropna(AllColumns(c), Len(c))

ComputeAllFeatures ==
    /\ ~features.done
    /\ features' = [done |-> TRUE,
                    A |-> compute_all_features(candles.A),
                    B |-> compute_all_features(candles.B)]
    /\ UNCHANGED <<candles, windowVars, normalizerVars, evaluateVars,
                   splitVars, scalerVars, ensembleVars, trainerVars, pipelineVars, serviceVars>>

\* ----------------------------------- Normalizer, features/normalization.py
\* An instance is [method, is_fitted, scaler]; scaler holds the attributes of
\* the sklearn scaler, which exist only once it has been fitted.  A matrix is
\* a sequence of rows; the numbers in the attributes are exact fractions.
NoScalerFile == [exists |-> FALSE]
NoInstance == [exists |-> FALSE]
NoOutcome == [op |-> "none", on |-> "none", raised |-> "none", value |-> <<>>]
NewScaler == [fitted |-> FALSE]
MustBeFittedBefore(op) == "ValueError: Normalizer must be fitted before " \o op
CannotSaveUnfitted == "ValueError: Cannot save unfitted scaler"
NotFittedError == "NotFittedError: This scaler instance is not fitted yet"
NoSamples == "ValueError: Found array with 0 sample(s)"
FeatureCountMismatch == "ValueError: X has a different number of features than the scaler is expecting"
AttributeError == "AttributeError: scaler object has no such attribute"
FileNotFoundError == "FileNotFoundError"
Returned(v) == [raised |-> "none", value |-> v]
Raised(e) == [raised |-> e, value |-> <<>>]

\* lines 26-35
__init__(method) ==
    [exists |-> TRUE, method |-> method, is_fitted |-> FALSE, scaler |-> NewScaler]

ColumnOf(M, j) == [i \in 1..Len(M) |-> M[i][j]]
FSub(x, y) == FAdd(x, FMul(FInt(-1), y))

\* line 60 on a matrix with at least one row: the attributes sklearn sets
scaler_fit(method, M) ==
    LET c == Len(M[1])
        p == [j \in 1..c |-> fit(method, ColumnOf(M, j))]
    IN  IF method = "standard"
        THEN [fitted |-> TRUE,
              mean_ |-> [j \in 1..c |-> Num(p[j].mean)],
              var_ |-> [j \in 1..c |-> Num(Variance(ColumnOf(M, j)))],
              scale_ |-> [j \in 1..c |-> FSqrt(p[j].scale_squared)],
              n_samples_seen_ |-> Len(M),
              n_features_in_ |-> c]
        ELSE IF method = "minmax"
        THEN [fitted |-> TRUE,
              data_min_ |-> [j \in 1..c |-> FInt(p[j].data_min)],
              data_max_ |-> [j \in 1..c |-> FInt(p[j].data_max)],
              data_range_ |-> [j \in 1..c |-> FInt(p[j].data_max - p[j].data_min)],
              scale_ |-> [j \in 1..c |-> FDiv(FInt(1), Num(p[j].range))],
              min_ |-> [j \in 1..c |->
                          FSub(FInt(0), FMul(FInt(p[j].data_min),
                                             FDiv(FInt(1), Num(p[j].range))))],
              n_samples_seen_ |-> Len(M),
              n_features_in_ |-> c]
        ELSE [fitted |-> TRUE,
              center_ |-> [j \in 1..c |-> Num(p[j].center)],
              scale_ |-> [j \in 1..c |-> Num(p[j].scale)],
              n_features_in_ |-> c]

\* lines 47-63.  sklearn refuses a matrix without rows; StandardScaler and
\* MinMaxScaler have dropped their attributes by then (fit resets first),
\* RobustScaler has not.  is_fitted is set only after scaler.fit returned.
Normalizer_fit(self, M) ==
    IF Len(M) = 0
    THEN [self |-> [self EXCEPT !.scaler = IF self.method = "robust"
                                            THEN self.scaler ELSE NewScaler],
          raised |-> NoSamples]
    ELSE [self |-> [self EXCEPT !.scaler = scaler_fit(self.method, M),
                                !.is_fitted = TRUE],
          raised |-> "none"]

\* line 81: the affine map of the scaler, column by column
scaler_transform(method, scaler, X) ==
    IF ~scaler.fitted THEN Raised(NotFittedError)
    ELSE IF Len(X[1]) # scaler.n_features_in_ THEN Raised(FeatureCountMismatch)
    ELSE Returned([i \in 1..Len(X) |-> [j \in 1..Len(X[i]) |->
            IF method = "standard"
            THEN FDiv(FSub(FInt(X[i][j]), scaler.mean_[j]), scaler.scale_[j])
            ELSE IF method = "minmax"
            THEN FAdd(FMul(FInt(X[i][j]), scaler.scale_[j]), scaler.min_[j])
            ELSE FDiv(FSub(FInt(X[i][j]), scaler.center_[j]), scaler.scale_[j])]])

\* line 103
scaler_inverse_transform(method, scaler, X) ==
    IF ~scaler.fitted THEN Raised(NotFittedError)
    ELSE IF Len(X[1]) # scaler.n_features_in_ THEN Raised(FeatureCountMismatch)
    ELSE Returned([i \in 1..Len(X) |-> [j \in 1..Len(X[i]) |->
            IF method = "standard"
            THEN FAdd(FMul(FInt(X[i][j]), scaler.scale_[j]), scaler.mean_[j])
            ELSE IF method = "minmax"
            THEN FDiv(FSub(FInt(X[i][j]), scaler.min_[j]), scaler.scale_[j])
            ELSE FAdd(FMul(FInt(X[i][j]), scaler.scale_[j]), scaler.center_[j])]])

\* lines 75, 97 and 112: `if not self.is_fitted`
not_fitted(self) == ~self.is_fitted

\* lines 65-81
transform(self, X) ==
    IF not_fitted(self) THEN Raised(MustBeFittedBefore("transform"))
    ELSE scaler_transform(self.method, self.scaler, X)

\* lines 87-103
inverse_transform(self, X) ==
    IF not_fitted(self) THEN Raised(MustBeFittedBefore("inverse_transform"))
    ELSE scaler_inverse_transform(self.method, self.scaler, X)

\* tolist() and json.dump: an array becomes a JSON array of number tokens
\* (repr of the double, or the token NaN); json.load and np.array read the
\* same doubles back
json_number(x) == IF IsNaN(x) THEN [token |-> "NaN"]
                  ELSE [token |-> "number", num |-> x.num, den |-> x.den]
json_array(a) == [j \in DOMAIN a |-> json_number(a[j])]
np_array(doc) == [j \in DOMAIN doc |->
                    IF doc[j].token = "NaN" THEN NaN
                    ELSE Num(Rat(doc[j].num, doc[j].den))]

\* lines 116-132: the document save writes
save_params(self) ==
    IF self.method = "standard"
    THEN [exists |-> TRUE, method |-> self.method, is_fitted |-> self.is_fitted,
          mean |-> json_array(self.scaler.mean_),
          scale |-> json_array(self.scaler.scale_)]
    ELSE IF self.method = "minmax"
    THEN [exists |-> TRUE, method |-> self.method, is_fitted |-> self.is_fitted,
          min |-> json_array(self.scaler.min_),
          scale |-> json_array(self.scaler.scale_),
          data_min |-> json_array(self.scaler.data_min_),
          data_max |-> json_array(self.scaler.data_max_)]
    ELSE [exists |-> TRUE, method |-> self.method, is_fitted |-> self.is_fitted,
          center |-> json_array(self.scaler.center_),
          scale |-> json_array(self.scaler.scale_)]

\* lines 105-137: the file after the call, and what the call raised.  The
\* attributes are read (lines 122-132) before the file is opened (line 134).
save_opens_first(self, file) ==
    IF self.is_fitted /\ self.scaler.fitted
    THEN [file |-> save_params(self), raised |-> "none"]
    ELSE [file |-> [exists |-> TRUE, method |-> self.method,
                    is_fitted |-> self.is_fitted],
          raised |-> IF self.is_fitted THEN AttributeError ELSE CannotSaveUnfitted]
save(self, file) ==
    IF not_fitted(self) THEN [file |-> file, raised |-> CannotSaveUnfitted]
    ELSE IF ~self.scaler.fitted THEN [file |-> file, raised |-> AttributeError]
    ELSE [file |-> save_params(self), raised |-> "none"]

\* lines 155-169: the attributes load sets on the scaler of the new instance
restored_scaler_min_from_data_min(saved) ==
    IF saved.method = "standard"
    THEN [fitted |-> TRUE,
          mean_ |-> np_array(saved.mean),
          scale_ |-> np_array(saved.scale),
          n_features_in_ |-> Len(saved.mean)]
    ELSE IF saved.method = "minmax"
    THEN [fitted |-> TRUE,
          min_ |-> np_array(saved.data_min),
          scale_ |-> np_array(saved.scale),
          data_min_ |-> np_array(saved.data_min),
          data_max_ |-> np_array(saved.data_max),
          n_features_in_ |-> Len(saved.min)]
    ELSE [fitted |-> TRUE,
          center_ |-> np_array(saved.center),
          scale_ |-> np_array(saved.scale),
          n_features_in_ |-> Len(saved.center)]
restored_scaler(saved) ==
    IF saved.method = "standard"
    THEN [fitted |-> TRUE,
          mean_ |-> np_array(saved.mean),
          scale_ |-> np_array(saved.scale),
          n_features_in_ |-> Len(saved.mean)]
    ELSE IF saved.method = "minmax"
    THEN [fitted |-> TRUE,
          min_ |-> np_array(saved.min),
          scale_ |-> np_array(saved.scale),
          data_min_ |-> np_array(saved.data_min),
          data_max_ |-> np_array(saved.data_max),
          n_features_in_ |-> Len(saved.min)]
    ELSE [fitted |-> TRUE,
          center_ |-> np_array(saved.center),
          scale_ |-> np_array(saved.scale),
          n_features_in_ |-> Len(saved.center)]

\* lines 139-174: the instance load returns, and what the call raised
load(file) ==
    IF ~file.exists THEN [instance |-> NoInstance, raised |-> FileNotFoundError]
    ELSE [instance |-> [__init__(file.method) EXCEPT
                            !.scaler = restored_scaler(file), !.is_fitted = TRUE],
          raised |-> "none"]

\* the one constructed instance and the instance the last load returned
Instances == {"normalizer", "loaded"}
Instance(on) == IF on = "normalizer" THEN normalizer ELSE loaded
\* the matrices handed to fit: no rows, or MaxFitRows rows whose odd columns
\* hold any values and whose even columns hold the complementary values
FitMatrices ==
    UNION {{[i \in 1..N |-> [j \in 1..c |-> IF j % 2 = 1 THEN col[i]
                                             ELSE MaxValue - col[i]]] :
               col \in [1..N -> 0..MaxValue]} :
           N \in {0, MaxFitRows}, c \in 1..MaxColumns}
\* the matrices handed to transform and inverse_transform: one row
Inputs == UNION {{[i \in 1..1 |-> [j \in 1..c |-> MaxValue]]} : c \in 1..MaxColumns}

\* normalizer.fit(M)
Fit ==
    /\ normalizer.exists
    /\ \E M \in FitMatrices :
          LET r == Normalizer_fit(normalizer, M)
          IN  /\ normalizer' = r.self
              /\ fitted_before' = (fitted_before \/ r.raised = "none")
              /\ outcome' = [op |-> "fit", on |-> "normalizer",
                             raised |-> r.raised, value |-> <<>>]
    /\ UNCHANGED <<scaler_file, loaded, saved_from, windowVars, featureVars,
                   evaluateVars, splitVars, scalerVars, ensembleVars,
                   trainerVars, pipelineVars, serviceVars>>

\* lines 83-85: normalizer.fit_transform(M)
FitTransform ==
    /\ normalizer.exists
    /\ \E M \in FitMatrices :
          LET r == Normalizer_fit(normalizer, M)
              t == IF r.raised = "none" THEN transform(r.self, M) ELSE Raised(r.raised)
          IN  /\ normalizer' = r.self
              /\ fitted_before' = (fitted_before \/ r.raised = "none")
              /\ outcome' = [op |-> "fit_transform", on |-> "normalizer",
                             raised |-> t.raised, value |-> t.value]
    /\ UNCHANGED <<scaler_file, loaded, saved_from, windowVars, featureVars,
                   evaluateVars, splitVars, scalerVars, ensembleVars,
                   trainerVars, pipelineVars, serviceVars>>

\* instance.transform(X)
Transform ==
    /\ \E on \in Instances, X \in Inputs :
          /\ Instance(on).exists
          /\ LET t == transform(Instance(on), X)
             IN  outcome' = [op |-> "transform", on |-> on,
                             raised |-> t.raised, value |-> t.value]
    /\ UNCHANGED <<normalizer, scaler_file, loaded, fitted_before, saved_from,
                   windowVars, featureVars, evaluateVars, splitVars, scalerVars,
                   ensembleVars, trainerVars, pipelineVars, serviceVars>>

\* instance.inverse_transform(X)
InverseTransform ==
    /\ \E on \in Instances, X \in Inputs :
          /\ Instance(on).exists
          /\ LET t == inverse_transform(Instance(on), X)
             IN  outcome' = [op |-> "inverse_transform", on |-> on,
                             raised |-> t.raised, value |-> t.value]
    /\ UNCHANGED <<normalizer, scaler_file, loaded, fitted_before, saved_from,
                   windowVars, featureVars, evaluateVars, splitVars, scalerVars,
                   ensembleVars, trainerVars, pipelineVars, serviceVars>>

\* instance.save(path)
Save ==
    /\ \E on \in Instances :
          /\ Instance(on).exists
          /\ LET r == save(Instance(on), scaler_file)
             IN  /\ scaler_file' = r.file
                 /\ saved_from' = IF r.raised = "none" THEN Instance(on) ELSE saved_from
                 /\ outcome' = [op |-> "save", on |-> on,
                                raised |-> r.raised, value |-> <<>>]
    /\ UNCHANGED <<normalizer, loaded, fitted_before, windowVars, featureVars,
                   evaluateVars, splitVars, scalerVars, ensembleVars,
                   trainerVars, pipelineVars, serviceVars>>

\* loaded = Normalizer.load(path)
Load ==
    /\ LET r == load(scaler_file)
       IN  /\ loaded' = IF r.raised = "none" THEN r.instance ELSE loaded
           /\ outcome' = [op |-> "load", on |-> "loaded",
                          raised |-> r.raised, value |-> <<>>]
    /\ UNCHANGED <<normalizer, scaler_file, fitted_before, saved_from,
                   windowVars, featureVars, evaluateVars, splitVars, scalerVars,
                   ensembleVars, trainerVars, pipelineVars, serviceVars>>

\* --------------------------------- Trainer.evaluate, trainer.py 218-269
FAbs(x) == IF IsNaN(x) THEN NaN ELSE Num(Rat(Abs(x.num), x.den))
np_mean(xs) == FDiv(FSum(xs), FInt(Len(xs)))
np_sqrt(x) == IF IsNaN(x) THEN NaN ELSE FSqrt(x)
Sign(x) == IF x > 0 THEN 1 ELSE IF x < 0 THEN -1 ELSE 0
Count(flags) == SumSeq([i \in DOMAIN flags |-> IF flags[i] THEN 1 ELSE 0])
Hundred == 100
\* line 238: predictions.squeeze() of a batch of one window is a 0-d array,
\* and list.extend of it raises TypeError
batch_of_one(n_test, batch_size) ==
    n_test > 0 /\ (batch_size = 1 \/ n_test % batch_size = 1)

\* line 251: np.sum((targets - predictions) ** 2)
ss_res(predictions, targets) ==
    FSum([i \in DOMAIN targets |->
            FInt((targets[i] - predictions[i]) * (targets[i] - predictions[i]))])
\* line 252: np.sum((targets - np.mean(targets)) ** 2)
ss_tot(targets) ==
    LET mean == np_mean([i \in DOMAIN targets |-> FInt(targets[i])])
    IN  FSum([i \in DOMAIN targets |->
                FMul(FSub(FInt(targets[i]), mean), FSub(FInt(targets[i]), mean))])
\* line 253: r2 = 1 - (ss_res / ss_tot) if ss_tot != 0 else 0
r2_unguarded(res, tot) == FSub(FInt(1), FDiv(res, tot))
r2(res, tot) == IF tot # FInt(0) THEN FSub(FInt(1), FDiv(res, tot)) ELSE FInt(0)

\* lines 241-265 on the collected arrays
compute_metrics(predictions, targets) ==
    LET diff == [i \in DOMAIN targets |-> FInt(predictions[i] - targets[i])]
    IN  [done |-> TRUE, raised |-> "none",
         mae |-> np_mean([i \in DOMAIN diff |-> FAbs(diff[i])]),
         rmse |-> np_sqrt(np_mean([i \in DOMAIN diff |-> FMul(diff[i], diff[i])])),
         mape |-> FMul(np_mean([i \in DOMAIN diff |->
                                  FAbs(FDiv(diff[i], FInt(targets[i])))]),
                       FInt(Hundred)),
         r2_score |-> r2(ss_res(predictions, targets), ss_tot(targets)),
         directional_accuracy |->
             FMul(FDiv(FInt(Count([i \in DOMAIN targets |->
                                     Sign(predictions[i]) = Sign(targets[i])])),
                       FInt(Len(predictions))),
                  FInt(Hundred))]

\* lines 218-269: the loop over the batches raises on a batch of one window
\* (line 238), otherwise the metrics are computed from the whole arrays
evaluate(predictions, targets, batch_size) ==
    IF batch_of_one(Len(targets), batch_size)
    THEN [done |-> TRUE, raised |-> "TypeError"]
    ELSE compute_metrics(predictions, targets)

TrainerEvaluate ==
    /\ ~metrics.done
    /\ metrics' = evaluate(eval_arrays.predictions, eval_arrays.targets,
                           eval_arrays.batch_size)
    /\ UNCHANGED <<eval_arrays, windowVars, featureVars, normalizerVars,
                   splitVars, scalerVars, ensembleVars, trainerVars, pipelineVars, serviceVars>>

\* ------------------------------------------------- idle values of the parts
SplitIdle ==
    /\ n_windows = 0
    /\ partition = Unsplit
ScalerIdle ==
    /\ datasets = [A |-> <<>>, B |-> <<>>]
    /\ normalization = "standard"
    /\ sequence_length = 1
    /\ normalizers = [A |-> Unfitted, B |-> Unfitted]
EnsembleIdle ==
    /\ strategy = "WEIGHTED_AVERAGE"
    /\ accuracy = NoAccuracy
    /\ call = NoCall
    /\ ensemble = NoResult
NoSequences == [done |-> FALSE, X |-> <<>>, y |-> <<>>]
WindowIdle ==
    /\ data = <<>>
    /\ window_args = [sequence_length |-> 1, target_column |-> 0, forecast_horizon |-> 1]
    /\ sequences = NoSequences
NoFeatures == [done |-> FALSE, A |-> <<>>, B |-> <<>>]
FeatureIdle ==
    /\ candles = [A |-> <<>>, B |-> <<>>]
    /\ features = NoFeatures
NormalizerIdle ==
    /\ normalizer = NoInstance
    /\ scaler_file = NoScalerFile
    /\ loaded = NoInstance
    /\ outcome = NoOutcome
    /\ fitted_before = FALSE
    /\ saved_from = NoInstance
NoMetrics == [done |-> FALSE]
EvaluateIdle ==
    /\ eval_arrays = [predictions |-> <<>>, targets |-> <<>>, batch_size |-> 1]
    /\ metrics = NoMetrics
NoForecast == [status |-> "none", by |-> "none", error |-> "none",
               columns |-> <<>>, window |-> <<>>]
InferenceIdle ==
    /\ live_features = [columns |-> <<>>, rows |-> 0]
    /\ artifact_metadata = [feature_columns |-> <<>>, sequence_length |-> 1]
    /\ forecast = NoForecast
NoError == [error |-> "None", attempt |-> 0]
NoLoader == [max_retries |-> 0, attempt |-> 0, lpc |-> "none", events |-> <<>>,
             last_error |-> NoError, raised |-> NoError, rows |-> 0]
LoaderIdle == loader = NoLoader
ServiceIdle == InferenceIdle /\ LoaderIdle
LibIdle == WindowIdle /\ FeatureIdle /\ NormalizerIdle /\ EvaluateIdle /\ ServiceIdle
CalcIdle == SplitIdle /\ ScalerIdle /\ EnsembleIdle /\ LibIdle
TrainerIdle ==
    /\ NewTrainerState
    /\ tpc = "none"
    /\ targs = NoArgs
PipelineIdle ==
    /\ fs = EmptyDir
    /\ pc = "idle"
    /\ run = 0
    /\ request = NoRequest
    /\ response = "none"

\* -------------------------------------------------- the split on its own
InitSplit ==
    /\ n_windows \in 0..MaxWindows
    /\ partition = Unsplit
    /\ ScalerIdle
    /\ EnsembleIdle
    /\ TrainerIdle
    /\ PipelineIdle
    /\ LibIdle
NextSplit == SplitWindows
SpecSplit == InitSplit /\ [][NextSplit]_vars

\* ------------------------------ two runs of the scaler fit, side by side
Rows == [x : 0..MaxValue, close : 0..MaxValue]
InitScaler ==
    /\ normalization \in Methods
    /\ sequence_length \in 1..MaxSeqLen
    /\ \E N \in (MaxRows - 1)..MaxRows :
          /\ datasets \in [A : [1..N -> Rows], B : [1..N -> Rows]]
          /\ \A i \in TrainingRows(N, sequence_length) :
                datasets.A[i + 1] = datasets.B[i + 1]
    /\ normalizers = [A |-> Unfitted, B |-> Unfitted]
    /\ SplitIdle
    /\ EnsembleIdle
    /\ TrainerIdle
    /\ PipelineIdle
    /\ LibIdle
NextScaler == FitScalers \/ TrainModelSequences
SpecScaler == InitScaler /\ [][NextScaler]_vars

\* ------------------------------------------------ the ensemble on its own
InitEnsemble ==
    /\ strategy \in Strategies
    /\ accuracy \in Accuracies
    /\ call = NoCall
    /\ ensemble = NoResult
    /\ fs \in EnsembleDirs
    /\ pc = "idle"
    /\ run = 1
    /\ request = NoRequest
    /\ response = "none"
    /\ TrainerIdle
    /\ SplitIdle
    /\ ScalerIdle
    /\ LibIdle
NextEnsemble == Predict \/ WeightedAverageCall \/ VotingCall
SpecEnsemble == InitEnsemble /\ [][NextEnsemble]_vars

\* ------------------------------------------- create_sequences on its own
Matrices == UNION {[1..N -> [1..MaxColumns -> 0..MaxValue]] : N \in 0..MaxMatrixRows}
InitWindows ==
    /\ data \in Matrices
    /\ window_args \in [sequence_length : 1..MaxSeqLen,
                        target_column : 0..(MaxColumns - 1),
                        forecast_horizon : 1..MaxHorizon]
    /\ sequences = NoSequences
    /\ FeatureIdle
    /\ NormalizerIdle
    /\ EvaluateIdle
    /\ SplitIdle
    /\ ScalerIdle
    /\ EnsembleIdle
    /\ TrainerIdle
    /\ PipelineIdle
    /\ ServiceIdle
NextWindows == CreateSequences
SpecWindows == InitWindows /\ [][NextWindows]_vars

\* ------------------------------------------------ one Normalizer object
\* A Normalizer has just been constructed; the path may already hold what a
\* fitted Normalizer of the same method saved earlier.
InitNormalizer ==
    /\ \E m \in Methods :
          /\ normalizer = __init__(m)
          /\ saved_from \in {NoInstance}
                \cup {Normalizer_fit(__init__(m), M).self :
                         M \in {F \in FitMatrices : Len(F) > 0}}
    /\ scaler_file = IF saved_from.exists
                     THEN save(saved_from, NoScalerFile).file ELSE NoScalerFile
    /\ loaded = NoInstance
    /\ outcome = NoOutcome
    /\ fitted_before = FALSE
    /\ WindowIdle
    /\ FeatureIdle
    /\ EvaluateIdle
    /\ SplitIdle
    /\ ScalerIdle
    /\ EnsembleIdle
    /\ TrainerIdle
    /\ PipelineIdle
    /\ ServiceIdle
NextNormalizer ==
    \/ Fit
    \/ FitTransform
    \/ Transform
    \/ InverseTransform
    \/ Save
    \/ Load
SpecNormalizer == InitNormalizer /\ [][NextNormalizer]_vars

\* ------------------------------------------- Trainer.evaluate on its own
\* The predictor's outputs and the targets of the test windows in loader
\* order.  Targets are non-zero: MAPE divides by them.
Targets == (-1..MaxTarget) \ {0}
InitEvaluate ==
    /\ \E n \in 1..MaxTestWindows :
          eval_arrays \in [predictions : [1..n -> -1..MaxTarget],
                           targets : [1..n -> Targets],
                           batch_size : 1..MaxBatchSize]
    /\ metrics = NoMetrics
    /\ WindowIdle
    /\ FeatureIdle
    /\ NormalizerIdle
    /\ SplitIdle
    /\ ScalerIdle
    /\ EnsembleIdle
    /\ TrainerIdle
    /\ PipelineIdle
    /\ ServiceIdle
NextEvaluate == TrainerEvaluate
SpecEvaluate == InitEvaluate /\ [][NextEvaluate]_vars

\* ---------------------------------------- compute_all_features on its own
\* The candles handed in (an empty table, for which line 161 raises, is not
\* among them): a market that moves every minute, with possibly a stretch of
\* minutes without a trade (open = high = low = close, volume 0), followed
\* from row `cut` on by candles of a sudden move.
MovingCandle(t) ==
    LET close == 10 + (t % 3)
        open == 10 + ((t + 2) % 3)
    IN  [open |-> open, high |-> Max(open, close) + 1, low |-> Min(open, close) - 1,
         close |-> close, volume |-> 1 + (t % 2)]
FlatCandle == [open |-> 10, high |-> 10, low |-> 10, close |-> 10, volume |-> 0]
SuddenCandle == [open |-> 12, high |-> 20, low |-> 5, close |-> 15, volume |-> 3]
CandleSeries(n, flat, cut) ==
    [i \in 1..n |-> IF i - 1 >= cut THEN SuddenCandle
                    ELSE IF i - 1 \in flat THEN FlatCandle
                    ELSE MovingCandle(i - 1)]
InitFeatures ==
    /\ \E n \in (MaxCandles - 2)..MaxCandles :
       \E flat \in {{}, 195..208, 196..209} :
       \E cutA \in (n - 1)..n, cutB \in (n - 3)..n :
          candles = [A |-> CandleSeries(n, flat, cutA), B |-> CandleSeries(n, flat, cutB)]
    /\ features = NoFeatures
    /\ WindowIdle
    /\ NormalizerIdle
    /\ EvaluateIdle
    /\ SplitIdle
    /\ ScalerIdle
    /\ EnsembleIdle
    /\ TrainerIdle
    /\ PipelineIdle
    /\ ServiceIdle
NextFeatures == ComputeAllFeatures
SpecFeatures == InitFeatures /\ [][NextFeatures]_vars

\* a direct call of Trainer.train on a freshly constructed Trainer
InitTrainer ==
    /\ NewTrainerState
    /\ tpc = "loop"
    /\ targs \in [epochs : 0..MaxEpochs, early_stopping_patience : 0..MaxPatience,
                  checkpoint_dir : BOOLEAN, n_train : 0..1, n_val : 0..1]
    /\ fs = [EmptyDir EXCEPT !.dir = TRUE]
    /\ pc = "caller"
    /\ run = 1
    /\ request = NoRequest
    /\ response = "none"
    /\ CalcIdle

NextTrainer == TrainEpoch \/ Validate \/ RestoreBest

SpecTrainer == InitTrainer /\ [][NextTrainer]_vars
FairSpecTrainer == SpecTrainer /\ WF_vars(NextTrainer)

\* ------------------------------------------------------------- train_model
ConstructTrainer(a, position) ==
    /\ params' = InitialParams
    /\ train_losses' = <<>>
    /\ val_losses' = <<>>
    /\ best_val_loss' = InfLoss
    /\ best_model_state' = NoState
    /\ epochs_without_improvement' = 0
    /\ epoch' = 0
    /\ terror' = "none"
    /\ epoch_params' = <<>>
    /\ targs' = a
    /\ tpc' = position

\* hidden_size: 128 is the default of TrainRequest, 64 the value of test_ml.py
HiddenSizes == {64, 128}
Requests == [model_type : ModelTypes, epochs : 1..MaxRequestEpochs,
             candles_ok : BOOLEAN, n : 0..MaxPipelineWindows,
             batch_size : 1..MaxBatchSize, hidden_size : HiddenSizes]

\* lines 38-134: load the candles, compute features, fit the scalers, build
\* the windows, split, create the predictor, the loaders and the Trainer.
\* Nothing is written.  Exceptions end in the handler of line 226:
\*  - fewer than 1000 candles: the HTTPException(400) of line 52 is raised
\*    inside the try block and re-raised as a 500 by `except Exception`;
\*  - no window: X_sequences.shape[2] raises IndexError (line 111);
\*  - empty training partition: DataLoader(shuffle=True) raises ValueError.
TrainModelPrepare ==
    /\ pc \in {"idle", "done"}
    /\ run < MaxRuns
    /\ \E req \in Requests, patience \in 1..MaxPatience :
        /\ request' = req
        /\ run' = run + 1
        /\ IF ~req.candles_ok \/ req.n = 0 \/ train_size(req.n) = 0
           THEN /\ pc' = "done"
                /\ response' = "500"
                /\ ConstructTrainer(NoArgs, "none")
           ELSE /\ pc' = "mkdir"
                /\ response' = "none"
                /\ ConstructTrainer(
                      [epochs |-> req.epochs, early_stopping_patience |-> patience,
                       checkpoint_dir |-> TRUE, n_train |-> train_size(req.n),
                       n_val |-> val_size(req.n)], "new")
    /\ UNCHANGED fs
    /\ UNCHANGED calcVars

\* lines 136-146: model_dir.mkdir(parents=True, exist_ok=True); trainer.train(...)
MakeModelDir ==
    /\ pc = "mkdir"
    /\ fs' = [fs EXCEPT !.dir = TRUE]
    /\ pc' = "train"
    /\ tpc' = "loop"
    /\ UNCHANGED <<params, train_losses, val_losses, best_val_loss, best_model_state,
                   epochs_without_improvement, epoch, targs, terror, epoch_params>>
    /\ UNCHANGED <<run, request, response>>
    /\ UNCHANGED calcVars

\* lines 226-228: an exception of trainer.train becomes a 500 answer
TrainFailed ==
    /\ pc = "train"
    /\ tpc = "raised"
    /\ pc' = "done"
    /\ response' = "500"
    /\ UNCHANGED <<fs, run, request>>
    /\ UNCHANGED trainerVars
    /\ UNCHANGED calcVars

\* lines 148-154: trainer.evaluate(test_loader) returns the metrics (the test
\* partition keeps at least one window whenever there is a window at all)
Evaluate ==
    /\ pc = "train"
    /\ tpc = "returned"
    /\ ~batch_of_one(test_size(request.n), request.batch_size)
    /\ pc' = "save_model"
    /\ UNCHANGED <<fs, run, request, response>>
    /\ UNCHANGED trainerVars
    /\ UNCHANGED calcVars

\* lines 148-154 and 226-228: trainer.evaluate raises on a test batch of one
\* window; the exception becomes a 500 answer
EvaluateFailed ==
    /\ pc = "train"
    /\ tpc = "returned"
    /\ batch_of_one(test_size(request.n), request.batch_size)
    /\ pc' = "done"
    /\ response' = "500"
    /\ UNCHANGED <<fs, run, request>>
    /\ UNCHANGED trainerVars
    /\ UNCHANGED calcVars

\* lines 162-176: torch.save({model_state_dict, model_config}, model_path)
SaveModel ==
    /\ pc = "save_model"
    /\ fs' = WithModelFile(fs, request.model_type,
                           Checkpoint(run, Serialized(params).v, request.model_type,
                                      request.hidden_size))
    /\ pc' = "save_normalizer_X"
    /\ UNCHANGED <<run, request, response>>
    /\ UNCHANGED trainerVars
    /\ UNCHANGED calcVars

\* line 179: X_normalizer.save(normalizer_X_path)
SaveNormalizerX ==
    /\ pc = "save_normalizer_X"
    /\ fs' = [fs EXCEPT !.normalizer_X = File(run, 0, "scaler")]
    /\ pc' = "save_normalizer_y"
    /\ UNCHANGED <<run, request, response>>
    /\ UNCHANGED trainerVars
    /\ UNCHANGED calcVars

\* line 180: y_normalizer.save(normalizer_y_path)
SaveNormalizerY ==
    /\ pc = "save_normalizer_y"
    /\ fs' = [fs EXCEPT !.normalizer_y = File(run, 0, "scaler")]
    /\ pc' = "save_metadata"
    /\ UNCHANGED <<run, request, response>>
    /\ UNCHANGED trainerVars
    /\ UNCHANGED calcVars

\* lines 183-224: json.dump(metadata, f); return {"success": True, ...}
SaveMetadata ==
    /\ pc = "save_metadata"
    /\ fs' = [fs EXCEPT !.metadata = File(run, 0, request.model_type)]
    /\ pc' = "done"
    /\ response' = "200"
    /\ UNCHANGED <<run, request>>
    /\ UNCHANGED trainerVars
    /\ UNCHANGED calcVars

\* the process dies between two steps of train_model: the files stay as they
\* are, the request gets no answer
Crash ==
    /\ pc \in {"train", "save_model", "save_normalizer_X", "save_normalizer_y",
               "save_metadata"}
    /\ pc' = "done"
    /\ response' = "crashed"
    /\ tpc' = "none"
    /\ UNCHANGED <<params, train_losses, val_losses, best_val_loss, best_model_state,
                   epochs_without_improvement, epoch, targs, terror, epoch_params>>
    /\ UNCHANGED <<fs, run, request>>
    /\ UNCHANGED calcVars

\* api/models.py lines 164-190, delete_model: 404 when the symbol's directory
\* does not exist, shutil.rmtree(model_dir) otherwise
delete_model(f) ==
    IF ~f.dir THEN [status |-> "404", fs |-> f]
    ELSE [status |-> "200", fs |-> EmptyDir]

\* api/models.py lines 193-248, cleanup_models: a directory without
\* metadata.json is skipped, one whose trained_at is older than maxAgeDays is
\* removed
cleanup_models(f, expired) ==
    IF ~f.dir \/ f.metadata = NoFile THEN [status |-> "200", fs |-> f]
    ELSE IF expired THEN [status |-> "200", fs |-> EmptyDir]
    ELSE [status |-> "200", fs |-> f]

\* DELETE /models/{symbol} between two train_model requests (the request and
\* the Trainer of the finished train_model call no longer exist)
DeleteModel ==
    /\ pc \in {"idle", "done"}
    /\ fs' = delete_model(fs).fs
    /\ response' = "delete " \o delete_model(fs).status
    /\ pc' = "idle"
    /\ request' = NoRequest
    /\ ConstructTrainer(NoArgs, "none")
    /\ UNCHANGED run
    /\ UNCHANGED calcVars

\* POST /models/cleanup between two train_model requests
CleanupModels ==
    /\ pc \in {"idle", "done"}
    /\ \E expired \in BOOLEAN :
          /\ fs' = cleanup_models(fs, expired).fs
          /\ response' = "cleanup " \o cleanup_models(fs, expired).status
    /\ pc' = "idle"
    /\ request' = NoRequest
    /\ ConstructTrainer(NoArgs, "none")
    /\ UNCHANGED run
    /\ UNCHANGED calcVars

Init ==
    /\ NewTrainerState
    /\ tpc = "none"
    /\ targs = NoArgs
    /\ fs = EmptyDir
    /\ pc = "idle"
    /\ run = 0
    /\ request = NoRequest
    /\ response = "none"
    /\ CalcIdle

Next ==
    \/ TrainModelPrepare
    \/ MakeModelDir
    \/ TrainEpoch
    \/ Validate
    \/ RestoreBest
    \/ TrainFailed
    \/ Evaluate
    \/ EvaluateFailed
    \/ SaveModel
    \/ SaveNormalizerX
    \/ SaveNormalizerY
    \/ SaveMetadata
    \/ Crash
    \/ DeleteModel
    \/ CleanupModels

Spec == Init /\ [][Next]_vars

\* ----------------------------------------------------------- one inference
\* predict_price (api/prediction.py lines 94-112) and
\* EnsembleService._get_model_prediction (services/ensemble.py lines 146-165)
\* run the same steps on the live feature table.  A cell of the table is
\* named by its row and its column; `normalized` tells whether the scaler
\* has been applied to it.
ColumnNames == {"close", "rsi_14", "macd"}
Arrangements(S, k) ==
    {q \in [1..k -> S] : \A i, j \in 1..k : i # j => q[i] # q[j]}
LiveTables ==
    [columns : UNION {Arrangements(ColumnNames, k) : k \in 0..Cardinality(ColumnNames)},
     rows : 0..MaxLiveRows]
Metadatas ==
    [feature_columns : UNION {Arrangements(ColumnNames, k) : k \in 1..MaxFeatureColumns},
     sequence_length : 1..MaxInferenceSeqLen]

KeyErrorNotInIndex == "KeyError: not in index"
HasColumn(table, c) == \E j \in 1..Len(table.columns) : table.columns[j] = c
Cell(i, c) == [row |-> i, column |-> c, normalized |-> FALSE]

select_columns_filled(table, feature_cols) ==
    Returned([i \in 1..table.rows |->
                [j \in 1..Len(feature_cols) |-> Cell(i, feature_cols[j])]])
\* prediction.py line 97, ensemble.py line 150: df_features[feature_cols].values
\* (indexing with a list raises KeyError when a label is not a column)
select_columns(table, feature_cols) ==
    IF \E j \in 1..Len(feature_cols) : ~HasColumn(table, feature_cols[j])
    THEN Raised(KeyErrorNotInIndex)
    ELSE Returned([i \in 1..table.rows |->
                     [j \in 1..Len(feature_cols) |-> Cell(i, feature_cols[j])]])

\* prediction.py line 100, ensemble.py line 153: X_normalizer.transform(X_data)
\* of a fitted scaler with as many features as listed columns: sklearn rejects
\* an array without rows; it changes the values, not the shape or the order
normalize_rows(X) ==
    IF Len(X) = 0 THEN Raised(NoSamples)
    ELSE Returned([i \in 1..Len(X) |->
                     [j \in 1..Len(X[i]) |-> [X[i][j] EXCEPT !.normalized = TRUE]]])

\* prediction.py line 104, ensemble.py line 157: X_normalized[-sequence_length:]
recent_sequence(X, L) ==
    SubSeq(X, IF Len(X) > L THEN Len(X) - L + 1 ELSE 1, Len(X))

FailedForecast(e) ==
    [status |-> "failed", error |-> e, columns |-> <<>>, window |-> <<>>]

\* the steps up to the call of the predictor, which accepts a window of any
\* positive number of rows
infer(table, md) ==
    LET X_data == select_columns(table, md.feature_columns)
    IN  IF X_data.raised # "none" THEN FailedForecast(X_data.raised)
        ELSE LET X_scaled == normalize_rows(X_data.value)
             IN  IF X_scaled.raised # "none"
                 THEN FailedForecast(X_scaled.raised)
                 ELSE [status |-> "ok", error |-> "none",
                       columns |-> [j \in 1..Len(X_data.value[1]) |->
                                       X_data.value[1][j].column],
                       window |-> recent_sequence(X_scaled.value,
                                                  md.sequence_length)]

\* predict_price: an exception becomes a 500 answer (lines 173-175)
PredictPrice ==
    /\ forecast.status = "none"
    /\ forecast' = [by |-> "predict_price"] @@ infer(live_features, artifact_metadata)
    /\ UNCHANGED <<live_features, artifact_metadata, loader>>
    /\ UNCHANGED <<windowVars, featureVars, normalizerVars, evaluateVars,
                   splitVars, scalerVars, ensembleVars, trainerVars, pipelineVars>>

\* _get_model_prediction: an exception excludes the member (caught by predict)
MemberPrediction ==
    /\ forecast.status = "none"
    /\ forecast' = [by |-> "_get_model_prediction"]
                      @@ infer(live_features, artifact_metadata)
    /\ UNCHANGED <<live_features, artifact_metadata, loader>>
    /\ UNCHANGED <<windowVars, featureVars, normalizerVars, evaluateVars,
                   splitVars, scalerVars, ensembleVars, trainerVars, pipelineVars>>

InitInference ==
    /\ live_features \in LiveTables
    /\ artifact_metadata \in Metadatas
    /\ forecast = NoForecast
    /\ LoaderIdle
    /\ WindowIdle
    /\ FeatureIdle
    /\ NormalizerIdle
    /\ EvaluateIdle
    /\ SplitIdle
    /\ ScalerIdle
    /\ EnsembleIdle
    /\ TrainerIdle
    /\ PipelineIdle

NextInference == PredictPrice \/ MemberPrediction

SpecInference == InitInference /\ [][NextInference]_vars

\* ------------------------------------------- ClickHouseLoader.load_candles
\* lines 110-151 of data/clickhouse_loader.py.  `events` lists what the call
\* has done so far: the queries it issued (with the exception of a failed
\* one) and the time.sleep calls with their seconds.
QueryErrors == {"ConnectionError", "TimeoutError"}
QueryEvent(e) == [kind |-> "query", error |-> e, seconds |-> 0]
SleepEvent(t) == [kind |-> "sleep", error |-> "none", seconds |-> t]
\* raise None: "exceptions must derive from BaseException"
RaiseNone == [error |-> "TypeError", attempt |-> 0]

wait_time_linear(attempt) == 2 * attempt
\* line 144: wait_time = 2 ** attempt
wait_time(attempt) == 2 ^ attempt

\* lines 112-132: the query succeeds, the DataFrame is returned
QuerySucceeds ==
    /\ loader.lpc = "loop"
    /\ loader.attempt < loader.max_retries
    /\ \E n \in 0..1 :
          loader' = [loader EXCEPT !.events = Append(@, QueryEvent("none")),
                                   !.rows = n,
                                   !.lpc = "returned"]
    /\ UNCHANGED inferenceVars
    /\ UNCHANGED <<windowVars, featureVars, normalizerVars, evaluateVars,
                   splitVars, scalerVars, ensembleVars, trainerVars, pipelineVars>>

\* lines 134-146: the attempt raises; last_error = e; unless it was the last
\* attempt, time.sleep(2 ** attempt); then the next iteration
QueryFails ==
    /\ loader.lpc = "loop"
    /\ loader.attempt < loader.max_retries
    /\ \E e \in QueryErrors :
          loader' = [loader EXCEPT
              !.events = IF loader.attempt < loader.max_retries - 1
                         THEN @ \o <<QueryEvent(e), SleepEvent(wait_time(loader.attempt))>>
                         ELSE Append(@, QueryEvent(e)),
              !.last_error = [error |-> e, attempt |-> loader.attempt + 1],
              !.attempt = @ + 1]
    /\ UNCHANGED inferenceVars
    /\ UNCHANGED <<windowVars, featureVars, normalizerVars, evaluateVars,
                   splitVars, scalerVars, ensembleVars, trainerVars, pipelineVars>>

\* lines 149-151: the loop is over, raise last_error
RaiseLastError ==
    /\ loader.lpc = "loop"
    /\ loader.attempt >= loader.max_retries
    /\ loader' = [loader EXCEPT
          !.raised = IF loader.last_error = NoError THEN RaiseNone
                     ELSE loader.last_error,
          !.lpc = "raised"]
    /\ UNCHANGED inferenceVars
    /\ UNCHANGED <<windowVars, featureVars, normalizerVars, evaluateVars,
                   splitVars, scalerVars, ensembleVars, trainerVars, pipelineVars>>

LoaderDone == loader.lpc \in {"returned", "raised"}

InitLoader ==
    /\ \E m \in 0..MaxRetries :
          loader = [NoLoader EXCEPT !.max_retries = m, !.lpc = "loop"]
    /\ InferenceIdle
    /\ WindowIdle
    /\ FeatureIdle
    /\ NormalizerIdle
    /\ EvaluateIdle
    /\ SplitIdle
    /\ ScalerIdle
    /\ EnsembleIdle
    /\ TrainerIdle
    /\ PipelineIdle

NextLoader == QuerySucceeds \/ QueryFails \/ RaiseLastError

SpecLoader == InitLoader /\ [][NextLoader]_vars
\* the call keeps running: the query and time.sleep return
FairSpecLoader == SpecLoader /\ WF_vars(NextLoader)

\* ------------------------------------------------ claims about Trainer.train
\* epoch i recorded a validation loss strictly lower than every earlier one
IsImprovement(vl, i) ==
    /\ IsFinite(vl[i])
    /\ \A j \in 1..(i - 1) : IsFinite(vl[j]) => vl[i].v < vl[j].v

\* the last epoch among the first e that improved the validation loss (0: none)
LastImprovement(vl, e) ==
    LET imp == {i \in 1..e : IsImprovement(vl, i)}
    IN  IF imp = {} THEN 0 ELSE CHOOSE i \in imp : \A j \in imp : j <= i

\* consecutive epochs without a strictly lower validation loss, after epoch e
NoImprovementRun(vl, e) == e - LastImprovement(vl, e)

AllFinite(ls) == \A i \in 1..Len(ls) : IsFinite(ls[i])
Diverged == ~AllFinite(train_losses) \/ ~AllFinite(val_losses)

\* C1 (as stated): when train returns after an improvement, the parameters are
\* those of the end of the epoch with the lowest validation loss.
C1_BestRestored ==
    (tpc = "returned" /\ best_model_state.kind # "none")
        => params = epoch_params[LastImprovement(val_losses, Len(val_losses))]

\* C2: train returns after the first epoch at which the run of epochs without
\* a strictly lower validation loss reaches early_stopping_patience, or after
\* `epochs` epochs when that never happens; the loop always terminates.
C2_StopEpoch ==
    /\ epoch <= targs.epochs
    /\ tpc = "returned" =>
          LET N == Len(val_losses)
          IN  /\ Len(train_losses) = N
              /\ N <= targs.epochs
              /\ \/ N = targs.epochs
                 \/ NoImprovementRun(val_losses, N) >= targs.early_stopping_patience
              /\ \A e \in 1..(N - 1) :
                    NoImprovementRun(val_losses, e) < targs.early_stopping_patience
              /\ LastImprovement(val_losses, N) + targs.early_stopping_patience < targs.epochs
                    => N = LastImprovement(val_losses, N) + targs.early_stopping_patience
                       \/ (targs.early_stopping_patience = 0 /\ N = 1)
C2_EarlyStopping == []C2_StopEpoch /\ <>TrainerDone

\* C2 witness: the loss last improved at epoch k >= 1, then only worsened, and
\* train returned after k + patience < epochs epochs
C2_Witness ==
    /\ tpc = "returned"
    /\ targs.early_stopping_patience >= 1
    /\ LastImprovement(val_losses, Len(val_losses)) >= 1
    /\ Len(val_losses) =
          LastImprovement(val_losses, Len(val_losses)) + targs.early_stopping_patience
    /\ Len(val_losses) < targs.epochs

\* C5 (as stated): train raises DivergedTraining at the first epoch with a
\* non-finite loss: no epoch follows such an epoch and no history is returned.
C5_DivergedRaises ==
    (targs.n_train > 0 /\ targs.n_val > 0) =>
    /\ tpc = "returned" => ~Diverged
    /\ \A i \in 1..(Len(train_losses) - 1) :
          /\ IsFinite(train_losses[i])
          /\ i <= Len(val_losses) => IsFinite(val_losses[i])
    /\ (TrainerDone /\ Diverged) => terror = "DivergedTraining"

\* C6 (as stated): with an empty validation set train raises InsufficientData
\* before any training pass has updated the parameters.
C6_EmptyValidationFailsFast ==
    (targs.n_val = 0 /\ targs.n_train > 0 /\ targs.epochs > 0 /\ tpc # "none") =>
        /\ params = InitialParams
        /\ TrainerDone => (tpc = "raised" /\ terror = "InsufficientData")

\* ------------------------------------------------- claims about train_model
SameRun(a) ==
    /\ a.model.run = a.metadata.run
    /\ a.normalizer_X.run = a.metadata.run
    /\ a.normalizer_y.run = a.metadata.run

\* C3 (as stated): at every point of train_model, crashes and retraining
\* included, what a reader loads is either nothing or predictor parameters,
\* scalers and metadata of one and the same training run.
C3_ReadersSeeOneRun ==
    /\ predict_price_load(fs).status = "200" => SameRun(predict_price_load(fs))
    /\ \A i \in 1..Len(_load_available_models(fs)) :
          LET a == member_load(fs, _load_available_models(fs)[i])
          IN  a.status = "200" => SameRun(a)

FilesOfRun(f, r) ==
    {name \in {"best_model", "lstm_model", "gru_model", "normalizer_X",
               "normalizer_y", "metadata"} : f[name].run = r}

\* C4 (as stated): a train_model run whose training diverged ends in an error
\* and leaves no file written by that run.
C4_DivergedPublishesNothing ==
    (pc = "done" /\ response # "crashed" /\ Diverged) =>
        /\ response = "500"
        /\ FilesOfRun(fs, run) = {}

\* ------------------------------------------------------ claims about the split
\* C7 (as stated): the fitted parameters of both scalers depend only on rows
\* of the training partition: two runs that differ only in rows of validation
\* or test windows fit identical parameters.
C7_FitOnTrainingRowsOnly ==
    (normalizers.A.is_fitted
     /\ TrainingRows(Len(datasets.A), sequence_length) # {})
        => normalizers.A = normalizers.B

InOrder(s) == \A i, j \in DOMAIN s : i < j => s[i] < s[j]
Elems(s) == {s[i] : i \in DOMAIN s}
Partitioned ==
    /\ Elems(partition.X_train) \cup Elems(partition.X_val) \cup Elems(partition.X_test)
          = 0..(n_windows - 1)
    /\ Elems(partition.X_train) \cap Elems(partition.X_val) = {}
    /\ Elems(partition.X_train) \cap Elems(partition.X_test) = {}
    /\ Elems(partition.X_val) \cap Elems(partition.X_test) = {}
    /\ InOrder(partition.X_train \o partition.X_val \o partition.X_test)

\* C8 (as stated): the split is a chronological partition with
\* train = the first floor(0.7 n) windows, validation = the next
\* floor(0.15 n), test = the rest.
C8_FloorPartition ==
    partition.done =>
        /\ Partitioned
        /\ Len(partition.X_train) = (7 * n_windows) \div 10
        /\ Len(partition.X_val) = (3 * n_windows) \div 20

\* C8 (amended): the split is a chronological partition; validation has
\* floor(0.15 n) windows; train has int(n * 0.7) windows in double arithmetic,
\* which is floor(0.7 n), or one less for some n that are multiples of 10.
C8_ChronologicalPartition ==
    partition.done =>
        /\ Partitioned
        /\ Len(partition.X_val) = (3 * n_windows) \div 20
        /\ Len(partition.X_train) \in
              {(7 * n_windows) \div 10, (7 * n_windows) \div 10 - 1}
        /\ n_windows % 10 # 0 => Len(partition.X_train) = (7 * n_windows) \div 10
        /\ Len(partition.X_train) >= 0

\* C8 witness: a split whose double product falls below the integer 0.7 n
C8_Witness ==
    /\ partition.done
    /\ Len(partition.X_train) = (7 * n_windows) \div 10 - 1
    /\ Len(partition.X_val) > 0
    /\ Len(partition.X_test) > 0

\* ----------------------------------------------- claims about the ensemble
\* the members whose inference did not raise, in the order they were loaded
SucceededMembers == {i \in DOMAIN call.outcomes : call.outcomes[i].ok}

\* C9: predict fails with "no models" when no artifact is found, with "no
\* valid predictions" exactly when models were loaded and every inference
\* failed, and otherwise answers from the surviving members only, with
\* models_used equal to their number.
C9_PredictOutcomes ==
    call.op = "predict" =>
        /\ (ensemble.status = "No models found") <=> (Len(_load_available_models(fs)) = 0)
        /\ (ensemble.status = "No valid predictions obtained")
              <=> (Len(call.models) > 0 /\ SucceededMembers = {})
        /\ SucceededMembers # {} =>
              /\ ensemble.status = "ok"
              /\ ensemble.models_used = Cardinality(SucceededMembers)
              /\ Len(ensemble.individual_predictions) = Cardinality(SucceededMembers)
              /\ \A j \in DOMAIN ensemble.individual_predictions :
                    \E i \in SucceededMembers :
                      /\ Cardinality({k \in SucceededMembers : k <= i}) = j
                      /\ ensemble.individual_predictions[j].model_type = call.models[i].type
                      /\ ensemble.individual_predictions[j].predicted_price
                            = call.outcomes[i].price

\* C9 witness: two models loaded, one inference failed, one survivor used
C9_Witness ==
    /\ call.op = "predict"
    /\ Len(call.models) = 2
    /\ Cardinality(SucceededMembers) = 1
    /\ ensemble.status = "ok"
    /\ ensemble.models_used = 1

WeightedSum == SumSeq([i \in DOMAIN call.weights |->
                          call.weights[i] * call.predictions[i].predicted_price])
IsWeightedAverage ==
    /\ call.op # "none"
    /\ ensemble.status = "ok"
    /\ ensemble.ensemble_strategy = "WEIGHTED_AVERAGE"

\* C10 (as stated): for every non-empty list of predictions and weights the
\* normalized weights sum to 1 and the price is sum(w_i p_i) / sum(w_i).
C10_WeightedMean ==
    IsWeightedAverage =>
        /\ FSum(NormalizeWeights(call.weights)) = FInt(1)
        /\ ~IsNaN(ensemble.predicted_price)
        /\ ensemble.predicted_price.num * SumSeq(call.weights)
              = WeightedSum * ensemble.predicted_price.den

\* C10 (amended): the same for weights whose sum is positive; when every
\* weight is 0 the normalized weights and the price are NaN.
C10_WeightedMeanPositiveWeights ==
    IsWeightedAverage =>
        IF SumSeq(call.weights) > 0
        THEN /\ FSum(NormalizeWeights(call.weights)) = FInt(1)
             /\ ~IsNaN(ensemble.predicted_price)
             /\ ensemble.predicted_price.num * SumSeq(call.weights)
                   = WeightedSum * ensemble.predicted_price.den
             /\ (\A i \in DOMAIN call.weights : call.weights[i] = call.weights[1])
                   => ensemble.predicted_price.num * Len(call.weights)
                        = SumSeq(PredictedPrices(call.predictions))
                            * ensemble.predicted_price.den
        ELSE IsNaN(ensemble.predicted_price)

\* C10 witness: 100 and 102 with weights 0.5 and 0.5 give 101
C10_Witness ==
    /\ IsWeightedAverage
    /\ call.weights = <<1, 1>>
    /\ PredictedPrices(call.predictions) = <<100, 102>>
    /\ ensemble.predicted_price = FInt(101)

\* C11: the confidence of WEIGHTED_AVERAGE lies in [0, 1]; it is
\* 1 / (1 + stddev / price) when the combined price is positive and 0.5 when
\* the combined price is zero or negative.
C11_ConfidenceRange ==
    IsWeightedAverage =>
        LET c == ensemble.confidence
            p == ensemble.predicted_price
            s == np_std(PredictedPrices(call.predictions))
        IN  /\ ~IsNaN(c)
            /\ 0 <= c.num
            /\ c.num <= c.den
            /\ FPositive(p) => FMul(c, FAdd(p, s)) = p
            /\ (~IsNaN(p) /\ p.num <= 0) => (c.num = 1 /\ c.den = 2)

\* C11 witness: a positive combined price with disagreeing predictions, so
\* that the confidence is strictly between 0 and 1 and is not the fallback
C11_Witness ==
    /\ IsWeightedAverage
    /\ FPositive(ensemble.predicted_price)
    /\ np_std(PredictedPrices(call.predictions)).num > 0
    /\ 0 < ensemble.confidence.num
    /\ ensemble.confidence.num < ensemble.confidence.den
    /\ ensemble.confidence # Half

IsVoting ==
    /\ call.op # "none"
    /\ ensemble.status = "ok"
    /\ ensemble.ensemble_strategy = "VOTING"
\* the median of the surviving predictions: the middle one in ascending
\* order, or the mean of the two middle ones
MedianOfCall ==
    LET a == Sorted(PredictedPrices(call.predictions))
        n == Len(a)
    IN  IF n % 2 = 1 THEN Rat(a[(n + 1) \div 2], 1)
        ELSE Rat(a[n \div 2] + a[n \div 2 + 1], 2)
Above == {i \in DOMAIN call.predictions :
            call.predictions[i].predicted_price * MedianOfCall.den > MedianOfCall.num}
Below == {i \in DOMAIN call.predictions :
            call.predictions[i].predicted_price * MedianOfCall.den < MedianOfCall.num}

\* C12 (as stated): VOTING returns the median as the price, the predictions
\* above the median as up-votes, the predictions below it as down-votes and
\* confidence = max(up, down) / survivors, 1.0 when all are tied.
C12_Voting ==
    IsVoting =>
        /\ ensemble.predicted_price = Num(MedianOfCall)
        /\ ensemble.votes.up = Cardinality(Above)
        /\ ensemble.votes.down = Cardinality(Below)
        /\ ensemble.confidence
              = Num(Rat(Max(ensemble.votes.up, ensemble.votes.down),
                        Len(call.predictions)))
        /\ (Above = {} /\ Below = {}) => ensemble.confidence = FInt(1)

\* C12 (amended): the down-votes are the predictions that are not above the
\* median, those equal to it included.
C12_VotingTiesCountDown ==
    IsVoting =>
        /\ ensemble.predicted_price = Num(MedianOfCall)
        /\ ensemble.votes.up = Cardinality(Above)
        /\ ensemble.votes.down = Len(call.predictions) - Cardinality(Above)
        /\ ensemble.confidence
              = Num(Rat(Max(ensemble.votes.up, ensemble.votes.down),
                        Len(call.predictions)))
        /\ (Above = {} /\ Below = {}) => ensemble.confidence = FInt(1)
        /\ ensemble.models_used = Len(call.predictions)

\* C12 witness: three predictions, one above, one at and one below the median
C12_Witness ==
    /\ IsVoting
    /\ Len(call.predictions) = 3
    /\ Cardinality(Above) = 1
    /\ Cardinality(Below) = 1
    /\ ensemble.votes = [up |-> 1, down |-> 2]
    /\ ensemble.confidence = Num(Rat(2, 3))

\* C13: with strategy STACKING predict returns exactly what WEIGHTED_AVERAGE
\* returns for the same surviving predictions and weights.
C13_StackingIsWeightedAverage ==
    (call.op = "predict" /\ strategy = "STACKING" /\ ensemble.status = "ok") =>
        LET wa == Combine("WEIGHTED_AVERAGE", call.predictions, call.weights)
        IN  /\ ensemble = wa
            /\ ensemble.predicted_price = wa.predicted_price
            /\ ensemble.confidence = wa.confidence
            /\ ensemble.models_used = wa.models_used
            /\ ensemble.individual_predictions = wa.individual_predictions
            /\ ensemble.ensemble_strategy = "WEIGHTED_AVERAGE"

\* C13 witness: a STACKING call with two survivors that disagree
C13_Witness ==
    /\ call.op = "predict"
    /\ strategy = "STACKING"
    /\ ensemble.status = "ok"
    /\ Len(call.predictions) = 2
    /\ call.predictions[1].predicted_price # call.predictions[2].predicted_price

\* ------------------------------------------ claims about create_sequences
WindowCount ==
    LET k == Len(data) - window_args.sequence_length - window_args.forecast_horizon + 1
    IN  IF k > 0 THEN k ELSE 0

\* C14: create_sequences returns exactly max(0, N - L - H + 1) windows and as
\* many targets, and an empty result (no error) when N < L + H.
C14_WindowCount ==
    sequences.done =>
        /\ Len(sequences.X) = WindowCount
        /\ Len(sequences.y) = WindowCount
        /\ Len(data) < window_args.sequence_length + window_args.forecast_horizon
              => (sequences.X = <<>> /\ sequences.y = <<>>)

\* C14 witness: a horizon above 1 and a matrix that gives more than one window
C14_Witness ==
    /\ sequences.done
    /\ window_args.forecast_horizon > 1
    /\ Len(sequences.X) = 2
    /\ Len(sequences.y) = 2

\* window j (1-based) of the result is the window of index j - 1: rows
\* j - 1 .. j + L - 2 of the matrix, in order
WindowIsRows(j) ==
    LET L == window_args.sequence_length
    IN  /\ Len(sequences.X[j].seq) = L
        /\ \A k \in 1..L : sequences.X[j].seq[k] = data[j - 1 + k]
        /\ sequences.X[j].rows = (j - 1)..(j + L - 2)

AgreeUpTo(i) ==
    /\ i < Len(candles.A)
    /\ i < Len(candles.B)
    /\ \A j \in 0..i : candles.A[j + 1] = candles.B[j + 1]
\* the output rows aligned with candle i (none when the row was dropped)
RowsOf(out, i) == {out[k].cols : k \in {k \in DOMAIN out : out[k].index = i}}

\* C16: compute_all_features is causal: two inputs that agree on rows 0..i
\* give the same output row for candle i, and agree on whether it is kept.
C16_Causal ==
    features.done =>
        \A i \in 0..(Len(candles.A) - 1) :
            AgreeUpTo(i) => RowsOf(features.A, i) = RowsOf(features.B, i)

\* C16 witness: the inputs differ after a row that both outputs keep, and
\* the outputs differ on a later row
C16_Witness ==
    /\ features.done
    /\ \E i \in 0..(Len(candles.A) - 2) :
          /\ AgreeUpTo(i)
          /\ ~AgreeUpTo(i + 1)
          /\ RowsOf(features.A, i) # {}
          /\ RowsOf(features.A, i) = RowsOf(features.B, i)
          /\ RowsOf(features.A, i + 1) # {}
          /\ RowsOf(features.A, i + 1) # RowsOf(features.B, i + 1)

\* the labels of out are the last Len(out) rows of an input of n rows, in order
IsSuffix(out, n) == \A k \in DOMAIN out : out[k].index = n - Len(out) + k - 1

FittedBefore(on) == IF on = "normalizer" THEN fitted_before ELSE loaded.exists
NotFittedErrorOf(op) ==
    IF op = "save" THEN CannotSaveUnfitted ELSE MustBeFittedBefore(op)
GuardedOps == {"transform", "inverse_transform", "save"}

\* C18: in every step that is a transform, inverse_transform or save of an
\* instance, the call returns normally only if a fit of that instance has
\* succeeded before (or the instance came out of load); on an instance that
\* was never fitted the call raises the not-fitted ValueError of that method
\* and leaves both instances and the file as they were.
C18_NotFittedGuard ==
    [][outcome'.op \in GuardedOps =>
          /\ outcome'.raised = "none" => FittedBefore(outcome'.on)
          /\ ~FittedBefore(outcome'.on) =>
                /\ outcome'.raised = NotFittedErrorOf(outcome'.op)
                /\ normalizer' = normalizer
                /\ loaded' = loaded
                /\ scaler_file' = scaler_file]_vars

\* a save on the never-fitted instance has been refused while the path holds
\* the document of an earlier save, from which an instance has been loaded
C18_Witness ==
    /\ outcome.op = "save"
    /\ outcome.on = "normalizer"
    /\ ~fitted_before
    /\ outcome.raised = CannotSaveUnfitted
    /\ scaler_file.exists
    /\ loaded.exists

\* ---------------------------------------------------------------- C19
\* the per-column parameters of a fitted instance
Parameters(self) ==
    IF self.method = "standard"
    THEN [mean_ |-> self.scaler.mean_, scale_ |-> self.scaler.scale_]
    ELSE IF self.method = "minmax"
    THEN [min_ |-> self.scaler.min_, scale_ |-> self.scaler.scale_,
          data_min_ |-> self.scaler.data_min_, data_max_ |-> self.scaler.data_max_]
    ELSE [center_ |-> self.scaler.center_, scale_ |-> self.scaler.scale_]
AnyInputs == UNION {[1..1 -> [1..c -> 0..MaxValue]] : c \in 1..MaxColumns}

\* C19: right after a load that returned, the new instance has the method of
\* the instance whose save wrote the file, is fitted, holds the same
\* per-column parameters and the same column count, and transform and
\* inverse_transform return on every input what that instance returned when
\* it saved.
C19_SaveLoadRoundTrip ==
    (outcome.op = "load" /\ outcome.raised = "none") =>
        /\ loaded.method = saved_from.method
        /\ loaded.is_fitted
        /\ Parameters(loaded) = Parameters(saved_from)
        /\ loaded.scaler.n_features_in_ = saved_from.scaler.n_features_in_
        /\ \A X \in AnyInputs :
              /\ transform(loaded, X) = transform(saved_from, X)
              /\ inverse_transform(loaded, X) = inverse_transform(saved_from, X)

\* the constructed instance was fitted on a column with spread, saved, and
\* the file was loaded; the original holds attributes the file does not
C19_Witness ==
    /\ outcome.op = "load"
    /\ outcome.raised = "none"
    /\ fitted_before
    /\ saved_from = normalizer
    /\ loaded.scaler # normalizer.scaler
    /\ \E j \in DOMAIN loaded.scaler.scale_ : loaded.scaler.scale_[j] # FInt(1)
    /\ \E X \in AnyInputs : transform(loaded, X).raised = "none"

\* ---------------------------------------------------------------- C20
\* evaluate has computed the metrics of predictions identical to the targets
Perfect ==
    /\ metrics.done
    /\ metrics.raised = "none"
    /\ eval_arrays.predictions = eval_arrays.targets
AllEqual(xs) == \A i \in DOMAIN xs : xs[i] = xs[1]

StrictlyLower(vl, i) == \A j \in 1..(i - 1) : Lt(vl[i], vl[j])

\* number of epochs completed since the last such epoch (all e when none)
EpochsSinceLower(vl, e) ==
    LET low == {i \in 1..e : StrictlyLower(vl, i)}
    IN  IF low = {} THEN e ELSE e - (CHOOSE i \in low : \A j \in low : j <= i)

\* l is the minimum of the recorded losses
IsMinimum(l, vl) ==
    /\ \E i \in 1..Len(vl) : vl[i] = l
    /\ \A i \in 1..Len(vl) : ~Lt(vl[i], l)

\* C26 (as stated): after every completed epoch best_val_loss is the minimum
\* of the validation losses recorded so far and epochs_without_improvement is
\* the number of epochs completed since the last epoch whose validation loss
\* was strictly lower than every earlier one.
C26_BestLossTracked ==
    (tpc \in {"loop", "restore", "returned"} /\ Len(val_losses) >= 1) =>
        /\ IsMinimum(best_val_loss, val_losses)
        /\ epochs_without_improvement =
              EpochsSinceLower(val_losses, Len(val_losses))


\* ------------------------------------------------- claims about the artifact
ArtifactFiles == {"lstm_model", "gru_model", "normalizer_X", "normalizer_y", "metadata"}

\* the files of the artifact a successful run has published (its metadata is
\* the last file train_model writes)
PublishedFiles(f) ==
    IF f.metadata = NoFile THEN {}
    ELSE {name \in ArtifactFiles : f[name] # NoFile /\ f[name].run = f.metadata.run}

\* C23 (as stated): once train_model has succeeded, a later train_model for the
\* same symbol leaves every file of the earlier artifact unchanged.
C23_EarlierArtifactKept ==
    [][(pc \in {"save_model", "save_normalizer_X", "save_normalizer_y",
                "save_metadata"}
        /\ fs.metadata # NoFile /\ fs.metadata.run < run)
          => \A name \in PublishedFiles(fs) : fs'[name] = fs[name]]_vars

\* C24 (as stated): after train_model has succeeded with any permitted
\* hyperparameters, predict_price rebuilds the predictor with them, loads the
\* files of that run and succeeds.
C24_PredictAfterTrain ==
    (pc = "done" /\ response = "200") =>
        /\ predict_price_status(fs) = "200"
        /\ predict_price_load(fs).model.run = run
        /\ predict_price_load(fs).metadata.run = run

\* C28 (as stated): with fewer than 1000 candles train_model answers 400
\* 'Insufficient data' and has neither created the directory nor written a file.
C28_InsufficientData400 ==
    (pc = "done" /\ ~request.candles_ok) =>
        /\ response = "400"
        /\ FilesOfRun(fs, run) = {}

\* C29 (as stated): after any sequence of train, delete and cleanup operations
\* predict_price answers 404 for a symbol that has no trained model, also when
\* an earlier training run failed after it had started.
C29_NoModelNotFound ==
    (pc \in {"idle", "done"} /\ fs.lstm_model = NoFile /\ fs.gru_model = NoFile)
        => predict_price_status(fs) = "404"


\* ------------------------------------------------ claims about the inference
MissingColumns(table, feature_cols) ==
    {j \in 1..Len(feature_cols) : ~HasColumn(table, feature_cols[j])}

\* C21: an inference fails and produces no window for the predictor whenever
\* the live feature table lacks a column of metadata["feature_columns"]; when
\* it does not fail, the columns fed to the scaler and to the predictor are
\* exactly the listed columns in the listed order.
C21_FeatureColumnsBinding ==
    forecast.status # "none" =>
        /\ MissingColumns(live_features, artifact_metadata.feature_columns) # {}
              => forecast.status = "failed" /\ forecast.window = <<>>
        /\ forecast.status = "ok" =>
              /\ forecast.columns = artifact_metadata.feature_columns
              /\ \A i \in 1..Len(forecast.window) :
                    [j \in 1..Len(forecast.window[i]) |-> forecast.window[i][j].column]
                        = artifact_metadata.feature_columns

\* C21 witness: predict_price failed because one of two listed columns is
\* missing, although the table has enough rows for a window
C21_Witness ==
    /\ forecast.by = "predict_price"
    /\ forecast.status = "failed"
    /\ forecast.error = KeyErrorNotInIndex
    /\ Len(artifact_metadata.feature_columns) = 2
    /\ Cardinality(MissingColumns(live_features,
                                  artifact_metadata.feature_columns)) = 1
    /\ live_features.rows >= artifact_metadata.sequence_length

\* C30 (as stated): the inference window has exactly sequence_length rows, the
\* most recent rows of the normalized table, and with fewer rows the
\* inference fails.
C30_FullWindow ==
    forecast.status # "none" =>
        /\ live_features.rows < artifact_metadata.sequence_length
              => forecast.status = "failed"
        /\ forecast.status = "ok" =>
              /\ Len(forecast.window) = artifact_metadata.sequence_length
              /\ \A i \in 1..Len(forecast.window) :
                    \A j \in 1..Len(forecast.window[i]) :
                        /\ forecast.window[i][j].normalized
                        /\ forecast.window[i][j].row =
                              live_features.rows - Len(forecast.window) + i


\* ------------------------------------------------- claims about load_candles
Queries(ev) == {i \in 1..Len(ev) : ev[i].kind = "query"}

\* C22 (safety part): at most max_retries queries; a success is returned
\* without a further attempt; a sleep only separates a failed attempt from the
\* next one, the k-th sleep lasting 2^(k-1) seconds, and none follows the last
\* attempt; after max_retries failures the error of the last attempt is raised.
C22_RetryDiscipline ==
    LET ev == loader.events
        last == Len(ev)
    IN  /\ Cardinality(Queries(ev)) <= loader.max_retries
        /\ \A i \in 1..last :
              /\ (ev[i].kind = "query" /\ ev[i].error = "none")
                    => i = last /\ loader.lpc = "returned"
              /\ (ev[i].kind = "query" /\ i < last) => ev[i + 1].kind = "sleep"
              /\ ev[i].kind = "sleep" =>
                    /\ i > 1 /\ ev[i - 1].kind = "query" /\ ev[i - 1].error # "none"
                    /\ i < last => ev[i + 1].kind = "query"
                    /\ ev[i].seconds = 2 ^ (Cardinality(Queries(SubSeq(ev, 1, i))) - 1)
        /\ (LoaderDone \/ loader.attempt >= loader.max_retries) =>
              (last > 0 => ev[last].kind = "query")
        /\ loader.lpc = "returned" => ev[last].error = "none"
        /\ loader.lpc = "raised" =>
              /\ Cardinality(Queries(ev)) = loader.max_retries
              /\ loader.max_retries >= 1 =>
                    /\ loader.raised.error = ev[last].error
                    /\ loader.raised.attempt = loader.max_retries

\* C22: the retry discipline holds throughout and the call terminates for
\* every max_retries.
C22_BoundedRetry == []C22_RetryDiscipline /\ <>LoaderDone

\* C22 witness: three attempts failed, the call slept 1 s and 2 s between them
\* and not after the third, and raised the third error, which differs from
\* the first
C22_Witness ==
    /\ loader.lpc = "raised"
    /\ loader.max_retries = 3
    /\ loader.events = <<QueryEvent("TimeoutError"), SleepEvent(1),
                         QueryEvent("TimeoutError"), SleepEvent(2),
                         QueryEvent("ConnectionError")>>
    /\ loader.raised = [error |-> "ConnectionError", attempt |-> 3]


\* --------------------------------------- claims about the training targets
\* C27: train_model builds as many targets as windows, and the target of
\* window i (rows i .. i + sequence_length - 1) is the normalized close of
\* feature row i + sequence_length.
C27_TargetsAligned ==
    (sequences.done /\ normalizers.A.is_fitted) =>
        /\ Len(sequences.y) = Len(sequences.X)
        /\ \A j \in 1..Len(sequences.X) :
              /\ sequences.X[j].rows = (j - 1)..(j + sequence_length - 2)
              /\ sequences.y[j].normalized
              /\ sequences.y[j].column = "close"
              /\ sequences.y[j].row = (j - 1) + sequence_length
              /\ sequences.y[j].raw = datasets.A[j + sequence_length].close

\* C27 witness: two windows of two rows each, cut from four feature rows with
\* different closes in the two target rows
C27_Witness ==
    /\ sequences.done
    /\ normalizers.A.is_fitted
    /\ sequence_length = 2
    /\ Len(sequences.X) = 2
    /\ Len(sequences.y) = 2
    /\ sequences.y[1].raw # sequences.y[2].raw


\* ------------------------------------ claims about the exponential smoothing
\* y[k] continues y[k - 1] by one step of the recursive smoothing of x with
\* factor 2 / (period + 1), in fixed point rounded down (unit: fixed-point
\* units per unit of x), up to `slack` fixed-point units
RecursiveStep(y1, y0, x1, period, unit, slack) ==
    Abs(y1 - (2 * unit * x1 + (period - 1) * y0) \div (period + 1)) <= slack

\* the rows k >= 2 of the output that directly follow the row before them
Consecutive(out) == {k \in 2..Len(out) : out[k].index = out[k - 1].index + 1}

\* num / den of a cell holding the two sums of an adjusted weighted mean
MeanOf(cell) == cell.v[1] \div cell.v[2]

\* C25 (as stated): every exponentially smoothed series of the FeatureEngineer
\* (the EMAs, MACD and its signal line, the smoothed force index, the
\* smoothing inside ADX) follows the recursive smoothing with factor
\* 2 / (period + 1).
C25_OneSmoothingConvention ==
    features.done =>
        LET out == features.A
            close == Raw(candles.A, "close")
            volume == Raw(candles.A, "volume")
            d == dx(Raw(candles.A, "high"), Raw(candles.A, "low"), close, 14)
        IN  \A k \in Consecutive(out) :
                LET i == out[k].index + 1
                    now == out[k].cols
                    before == out[k - 1].cols
                IN  /\ \A span \in {7, 20, 50, 100, 200} :
                          LET name == IF span = 7 THEN "ema_7"
                                      ELSE IF span = 20 THEN "ema_20"
                                      ELSE IF span = 50 THEN "ema_50"
                                      ELSE IF span = 100 THEN "ema_100"
                                      ELSE "ema_200"
                          IN  RecursiveStep(now[name].v[1], before[name].v[1],
                                            close[i], span, FixedPoint, 0)
                    /\ RecursiveStep(now.macd_signal.v[1], before.macd_signal.v[1],
                                     now.macd.v[1], 9, 1, 0)
                    /\ RecursiveStep(now.force_index_13.v[1], before.force_index_13.v[1],
                                     (close[i] - close[i - 1]) * volume[i], 13,
                                     FixedPoint, 0)
                    \* (4 units of slack cover the rounding of the quotient)
                    /\ ~d[i].nan =>
                          RecursiveStep(MeanOf(now.adx_14), MeanOf(before.adx_14),
                                        d[i].v[1], 14, 1, 4)

====
